---- MODULE Spec2Model ----
(***************************************************************************)
(* Verification model of Auto-Kemono-Downloader: the Downloader pipeline   *)
(* (downloader.py), the post Cache (cache.py), the artist record in        *)
(* Storage (storage.py), the Scheduler (scheduler.py) and the streamed     *)
(* file download of the HTTP client (api.py).                              *)
(*                                                                         *)
(* Dates are modelled as the integers 1..MaxDate, ordered as the ISO-8601  *)
(* strings the program compares; NoDate stands for None and for "".        *)
(*                                                                         *)
(* Downloader calls Cache.load_posts(id, apply_filters=False) at two       *)
(* places; the Cache.load_posts of cache.py takes no such argument and     *)
(* applies no filter.  The model takes those calls to be the unfiltered    *)
(* load that cache.py implements.                                          *)
(***************************************************************************)
EXTENDS Integers, Sequences, FiniteSets, TLC

\* ------------------------------------------------------------------ bounds
MaxPosts == 2
MaxDate == 2
MaxFiles == 1

PostIds == 1..MaxPosts
Dates == 1..MaxDate
Files == 1..MaxFiles
Runners == {1, 2}

\* artist.last_date of None, and the "" it is compared as (downloader.py:538)
NoDate == 0

VARIABLES
    \* ---- remote service
    published,      \* post id -> published date of the post
    remote,         \* the post list the service returns, newest first
    next_id,        \* the id the next published post gets
    \* ---- Cache (one artist): the posts file
    cache,          \* sequence of [id, done, failed_files]
    \* ---- Storage: the artist record
    last_date,      \* artist.last_date as persisted
    artist_skip,    \* artist.completed or artist.ignore
    \* ---- cancellation flags
    dl_stop,        \* Downloader._stop_flag
    api_stop,       \* API._stop_flag
    \* ---- download_artist calls in progress
    run

dlVars == <<published, remote, next_id, cache, last_date, artist_skip,
            dl_stop, api_stop, run>>

VARIABLES
    \* ---- Scheduler
    task_queue,     \* Scheduler.task_queue: task ids, oldest first
    queued_tasks,   \* Scheduler.queued_tasks
    active_tasks,   \* Scheduler.active_tasks: artist id -> task id (NoTask: no entry)
    completed_tasks,\* Scheduler.completed_tasks
    task_key,       \* task id -> (artist_id, from_date, until_date)
    task_pc,        \* task id -> where the task is
    task_epoch,     \* task id -> cancel_all_tasks calls returned when it was queued
    task_files,     \* task id -> files the task has asked download_file for
    task_placed,    \* task id -> files the task has renamed to their destination
    next_task,      \* the id the next DownloadTask accepted gets
    add_ret,        \* the last _add_task call: its key and what it returned
    batch,          \* the queue_batch call in progress
    cancel,         \* the cancel_all_tasks call in progress
    removed,        \* tasks a cancel_all_tasks call took out of the queue
    covered,        \* tasks active at the call of a cancel_all_tasks that returned
    cancel_returns, \* cancel_all_tasks calls that have returned
    max_workers     \* Scheduler.max_workers, the size of the worker pool too

schedVars == <<task_queue, queued_tasks, active_tasks, completed_tasks, task_key,
               task_pc, task_epoch, task_files, task_placed, next_task, add_ret, batch, cancel, removed,
               covered, cancel_returns, max_workers>>

VARIABLES
    \* ---- the download directory of one destination path, and download_file
    fs_dest,        \* what the destination path holds
    fs_tmp,         \* what the '.tmp' path holds
    fs_alt,         \* what the "name (1)", "name (2)", ... paths hold
    dfile           \* the download_file call in progress

fileVars == <<fs_dest, fs_tmp, fs_alt, dfile>>

VARIABLES
    \* ---- the threads of the pool of download_posts, inside Cache.update_post
    upd,            \* thread -> the update_post call it is in
    upd_last,       \* post id -> done and failed_files of the last call returned
    pool_taken,     \* posts of the working set a thread of the pool has taken
    pool_cut,       \* posts of them whose processing cancellation cut short
    retry,          \* the call of API._retry_until_success in progress
    filter_call,    \* PostFilter.apply_filters: its arguments and its result
    dedup_call,     \* Cache.deduplicate_posts: the cache before and its result
    sanitize_call,  \* the path sanitiser: its argument and its result
    artist_filter,  \* Artist.filter
    global_filter   \* Config.global_filter

callVars == <<filter_call, dedup_call, sanitize_call, artist_filter,
              global_filter>>

VARIABLES
    \* ---- the fields of a DownloadTask the worker writes, and the Storage
    task_status,    \* task id -> DownloadTask.status
    task_error,     \* task id -> DownloadTask.error
    storage_artists \* the artists Storage.get_artists returns

VARIABLES
    \* ---- calls of the shell's cache commands
    reset_call,     \* Cache.reset_after_date: its argument, the cache before, its result
    ignore_store,   \* validation_ignore.json: artist id -> conflicts and ignores
    validate_call   \* Validator.validate_full_paths: its calls and their audit

VARIABLES
    \* ---- calls of the shell's maintenance commands
    migrate_call,   \* Migrator.migrate_posts: its inputs and the plan it returned
    rpc_accepted,   \* the tasks a command of the RPC service queued while
                    \* cancel_all_tasks was between its clear and its resume
    post_items,     \* post id -> file and attachments of the cached post
    full,           \* Downloader.update_posts_full: the call and its posts
    pass            \* the position of _scheduler_loop in its pass

laterCalls == <<migrate_call, rpc_accepted, post_items, full, pass>>

moreCalls == <<reset_call, ignore_store, validate_call, laterCalls>>

VARIABLES
    \* ---- the clock and the timers
    now,            \* datetime.now(), in slots of a day since the first day
    timer,          \* artist id -> artist.timer or the global timer
    next_runs,      \* Scheduler.next_runs (NoRun: no entry)
    loop_seen,      \* the instant of the last turn of _scheduler_loop
    loop_raised,    \* whether that turn ended in the except clause of the loop
    pauses          \* how often the process has been suspended

timerVars == <<now, timer, next_runs, loop_seen, loop_raised, pauses>>

extVars == <<task_status, task_error, storage_artists, moreCalls, timerVars>>

unitVars == <<upd, upd_last, pool_taken, pool_cut, retry, callVars, extVars>>

\* everything of the Downloader but the two cancellation flags
dlData == <<published, remote, next_id, cache, last_date, artist_skip, run>>

vars == <<dlVars, schedVars, fileVars, unitVars>>

\* ------------------------------------------------------------ pure helpers

Ids(posts) == {posts[i].id : i \in DOMAIN posts}

\* the first index of posts holding pid (0 when there is none)
IndexOf(posts, pid) ==
    IF pid \in Ids(posts)
    THEN CHOOSE i \in DOMAIN posts :
            posts[i].id = pid /\ \A j \in 1..(i - 1) : posts[j].id # pid
    ELSE 0

\* {p.id: p for p in cached_posts}: a later entry of the same id wins
ExistingPost(posts, pid) ==
    posts[CHOOSE i \in DOMAIN posts :
            posts[i].id = pid /\ \A j \in (i + 1)..Len(posts) : posts[j].id # pid]

\* reduce(lambda acc, x: acc if any(d['id'] == x['id'] ...) else acc + [x])
RECURSIVE DedupRemote(_)
DedupRemote(ids) ==
    IF ids = <<>> THEN <<>>
    ELSE LET acc == DedupRemote(SubSeq(ids, 1, Len(ids) - 1))
             x == ids[Len(ids)]
         IN IF \E i \in DOMAIN acc : acc[i] = x THEN acc ELSE Append(acc, x)

\* the last_date rule applied to every artist, new or not
NewPost_AnyArtist(pid, is_new_artist, artist_last) ==
    [id |-> pid,
     done |-> (artist_last # NoDate /\ published[pid] <= artist_last),
     failed_files |-> {}]

\* Post(..., done=False) and the last_date rule of update_posts_basic
NewPost(pid, is_new_artist, artist_last) ==
    [id |-> pid,
     done |-> (is_new_artist /\ artist_last # NoDate /\ published[pid] <= artist_last),
     failed_files |-> {}]

\* a merge that builds every post anew instead of keeping the cached one
MergePosts_Recreate(cached_posts, all_posts_data, artist_last) ==
    [i \in DOMAIN all_posts_data |->
        NewPost(all_posts_data[i], Len(cached_posts) = 0, artist_last)]

\* a merge that keeps the posts already cached and adds none
MergePosts_KnownOnly(cached_posts, all_posts_data, artist_last) ==
    SelectSeq([i \in DOMAIN all_posts_data |->
                    IF all_posts_data[i] \in Ids(cached_posts)
                    THEN ExistingPost(cached_posts, all_posts_data[i])
                    ELSE NewPost(all_posts_data[i], FALSE, artist_last)],
              LAMBDA p : p.id \in Ids(cached_posts))

\* a merge that keeps the cached posts the remote list no longer has
MergePosts_KeepAbsent(cached_posts, all_posts_data, artist_last) ==
    [i \in DOMAIN all_posts_data |->
        IF all_posts_data[i] \in Ids(cached_posts)
        THEN ExistingPost(cached_posts, all_posts_data[i])
        ELSE NewPost(all_posts_data[i], Len(cached_posts) = 0, artist_last)]
    \o SelectSeq(cached_posts,
                 LAMBDA p : \A i \in DOMAIN all_posts_data : all_posts_data[i] # p.id)

\* update_posts_basic: merged_posts
MergePosts(cached_posts, all_posts_data, artist_last) ==
    LET is_new_artist == Len(cached_posts) = 0
    IN [i \in DOMAIN all_posts_data |->
            IF all_posts_data[i] \in Ids(cached_posts)
            THEN ExistingPost(cached_posts, all_posts_data[i])
            ELSE NewPost(all_posts_data[i], is_new_artist, artist_last)]

\* Cache.update_post with failed_files given: the first post of that id
UpdatePost(posts, pid, done, failed_files) ==
    LET k == IndexOf(posts, pid)
    IN [i \in DOMAIN posts |->
            IF i = k THEN [posts[i] EXCEPT !.done = done, !.failed_files = failed_files]
            ELSE posts[i]]

\* a get_undone that returns every post
GetUndone_All(posts) == posts

GetUndone(posts) ==
    LET undone(p) == ~p.done \/ p.failed_files # {}
    IN SelectSeq(posts, undone)

\* a range that takes the post published at from_date too
InRange_FromInclusive(posts, from_date, until_date) ==
    LET inr(p) == /\ (from_date = NoDate \/ published[p.id] >= from_date)
                  /\ (until_date = NoDate \/ published[p.id] <= until_date)
    IN SelectSeq(posts, inr)

\* post.published > from_date and post.published <= until_date
InRange(posts, from_date, until_date) ==
    LET inr(p) == /\ (from_date = NoDate \/ published[p.id] > from_date)
                  /\ (until_date = NoDate \/ published[p.id] <= until_date)
    IN SelectSeq(posts, inr)

\* sorted(all_posts, key=lambda p: p.published): a stable sort
RECURSIVE SortByPublished(_)
SortByPublished(posts) ==
    IF posts = <<>> THEN <<>>
    ELSE LET rest == SortByPublished(SubSeq(posts, 1, Len(posts) - 1))
             x == posts[Len(posts)]
             n == Cardinality({i \in DOMAIN rest : published[rest[i].id] <= published[x.id]})
         IN SubSeq(rest, 1, n) \o <<x>> \o SubSeq(rest, n + 1, Len(rest))

RECURSIVE WalkDone(_, _, _, _)
WalkDone(sorted_posts, i, start_date, new_last_date) ==
    IF i > Len(sorted_posts) THEN new_last_date
    ELSE IF published[sorted_posts[i].id] <= start_date
         THEN WalkDone(sorted_posts, i + 1, start_date, new_last_date)
         ELSE IF ~sorted_posts[i].done THEN new_last_date
              ELSE WalkDone(sorted_posts, i + 1, start_date, published[sorted_posts[i].id])

\* a walk that does not stop at an undone post
RECURSIVE WalkDone_NoBreak(_, _, _, _)
WalkDone_NoBreak(sorted_posts, i, start_date, new_last_date) ==
    IF i > Len(sorted_posts) THEN new_last_date
    ELSE IF published[sorted_posts[i].id] <= start_date \/ ~sorted_posts[i].done
         THEN WalkDone_NoBreak(sorted_posts, i + 1, start_date, new_last_date)
         ELSE WalkDone_NoBreak(sorted_posts, i + 1, start_date,
                               published[sorted_posts[i].id])

CalculateNewLastDate_NoBreak(posts, artist_last) ==
    IF posts = <<>> THEN NoDate
    ELSE LET new_last_date ==
                WalkDone_NoBreak(SortByPublished(posts), 1, artist_last, artist_last)
         IN IF new_last_date # artist_last THEN new_last_date ELSE NoDate

\* _calculate_new_last_date; NoDate stands for the None it returns
CalculateNewLastDate(posts, artist_last) ==
    IF posts = <<>> THEN NoDate
    ELSE LET new_last_date == WalkDone(SortByPublished(posts), 1, artist_last, artist_last)
         IN IF new_last_date # artist_last THEN new_last_date ELSE NoDate

\* Cache.mark_old_done
MarkOldDonePosts(posts, before_date) ==
    [i \in DOMAIN posts |->
        IF published[posts[i].id] <= before_date
        THEN [posts[i] EXCEPT !.done = TRUE] ELSE posts[i]]

\* a reset that takes the posts that are not done too
ResetAfterDatePosts_All(posts, after_date) ==
    [i \in DOMAIN posts |->
        IF after_date = NoDate \/ published[posts[i].id] > after_date
        THEN [posts[i] EXCEPT !.done = FALSE, !.failed_files = {}] ELSE posts[i]]

\* Cache.reset_after_date: reset_count
ResetCount(posts, after_date) ==
    Cardinality({i \in DOMAIN posts :
        posts[i].done /\ (after_date = NoDate \/ published[posts[i].id] > after_date)})

\* Cache.reset_after_date; after_date = NoDate is the call without a date
ResetAfterDatePosts(posts, after_date) ==
    [i \in DOMAIN posts |->
        IF posts[i].done /\ (after_date = NoDate \/ published[posts[i].id] > after_date)
        THEN [posts[i] EXCEPT !.done = FALSE, !.failed_files = {}] ELSE posts[i]]

\* -------------------------------------------------- download_artist, a call

IdleRun ==
    [pc |-> "idle", from_date |-> NoDate, until_date |-> NoDate,
     artist_last |-> NoDate, snap |-> <<>>, merged |-> <<>>, work |-> {},
     downloaded |-> 0, failed_posts |-> {}, new_last |-> NoDate,
     profile_gets |-> 0, page_gets |-> FALSE, post_gets |-> FALSE,
     file_gets |-> FALSE, result |-> "none", success |-> FALSE,
     ub_saved |-> FALSE, pre_cache |-> <<>>, pre_last |-> NoDate,
     cut |-> FALSE]

AllIdle == \A r \in Runners : run[r].pc = "idle"

\* DownloadArtistResult.skipped: success=True, posts_downloaded=0
Skipped(rec) == [rec EXCEPT !.pc = "done", !.result = "skipped", !.success = TRUE]

\* except Exception: DownloadArtistResult.failed
Failed(rec) ==
    [rec EXCEPT !.pc = "done", !.result = "error", !.success = FALSE,
                !.downloaded = 0, !.failed_posts = {}, !.work = {}]

\* the call met a set stop flag: a step of it was skipped or aborted
Cut(rec) == [rec EXCEPT !.cut = TRUE]

\* the DownloadArtistResult built from posts_result
Returned(rec) ==
    [rec EXCEPT !.pc = "done", !.result = "returned",
                !.success = (rec.failed_posts = {})]

\* Scheduler._execute_task reads the artist; download_artist checks the stop
\* flag and the completed/ignore marks
Begin(r, fd, ud) ==
    /\ run[r].pc = "idle"
    /\ LET rec == [IdleRun EXCEPT !.from_date = fd, !.until_date = ud,
                                  !.artist_last = last_date,
                                  !.pre_cache = cache, !.pre_last = last_date]
       IN run' = [run EXCEPT ![r] =
                    IF dl_stop THEN Skipped(Cut(rec))
                    ELSE IF artist_skip THEN Skipped(rec)
                    ELSE [rec EXCEPT !.pc = "ub_check"]]
    /\ UNCHANGED <<unitVars, schedVars, fileVars, published, remote, next_id, cache, last_date, artist_skip,
                   dl_stop, api_stop>>

\* update_posts_basic: the stop flag check at its head
UbCheck(r) ==
    /\ run[r].pc = "ub_check"
    /\ run' = [run EXCEPT ![r] = IF dl_stop THEN [Cut(@) EXCEPT !.pc = "select"]
                                  ELSE [@ EXCEPT !.pc = "ub_profile"]]
    /\ UNCHANGED <<unitVars, schedVars, fileVars, published, remote, next_id, cache, last_date, artist_skip,
                   dl_stop, api_stop>>

\* update_posts_basic: the profile probe and the count comparison
UbProfile(r) ==
    /\ run[r].pc = "ub_profile"
    /\ run' = [run EXCEPT ![r] =
                IF api_stop THEN Failed(Cut(@))
                ELSE [@ EXCEPT !.profile_gets = @ + 1,
                               !.snap = IF Len(remote) = Len(cache) THEN <<>> ELSE cache,
                               !.pc = IF Len(remote) = Len(cache)
                                      THEN "select" ELSE "ub_fetch"]]
    /\ UNCHANGED <<unitVars, schedVars, fileVars, published, remote, next_id, cache, last_date, artist_skip,
                   dl_stop, api_stop>>

\* update_posts_basic: get_all_posts, the dedup and the merge
UbFetch(r) ==
    /\ run[r].pc = "ub_fetch"
    /\ LET all_posts_data == DedupRemote(remote)
       IN run' = [run EXCEPT ![r] =
                IF api_stop THEN Failed(Cut(@))
                ELSE [@ EXCEPT !.profile_gets = @ + 1,
                               !.page_gets = (Len(remote) > 0),
                               !.snap = <<>>,
                               !.merged = IF Len(all_posts_data) = Len(run[r].snap)
                                          THEN <<>>
                                          ELSE MergePosts(run[r].snap, all_posts_data,
                                                          run[r].artist_last),
                               !.pc = IF Len(all_posts_data) = Len(run[r].snap)
                                      THEN "select" ELSE "ub_save"]]
    /\ UNCHANGED <<unitVars, schedVars, fileVars, published, remote, next_id, cache, last_date, artist_skip,
                   dl_stop, api_stop>>

\* update_posts_basic: cache.save_posts(merged_posts)
UbSave(r) ==
    /\ run[r].pc = "ub_save"
    /\ cache' = run[r].merged
    /\ run' = [run EXCEPT ![r].pc = "select", ![r].ub_saved = TRUE,
                          ![r].merged = <<>>]
    /\ UNCHANGED <<unitVars, schedVars, fileVars, published, remote, next_id, last_date, artist_skip,
                   dl_stop, api_stop>>

\* download_artist: the working set
PostsToProcess(posts, from_date, until_date) ==
    IF from_date # NoDate \/ until_date # NoDate
    THEN InRange(posts, from_date, until_date)
    ELSE GetUndone(posts)

Select(r) ==
    /\ run[r].pc = "select"
    /\ LET posts_to_process ==
            PostsToProcess(cache, run[r].from_date, run[r].until_date)
       IN run' = [run EXCEPT ![r].work = Ids(posts_to_process),
                             ![r].pc = IF posts_to_process = <<>>
                                       THEN "calc" ELSE "posts"]
    /\ UNCHANGED <<unitVars, schedVars, fileVars, published, remote, next_id, cache, last_date, artist_skip,
                   dl_stop, api_stop>>
\* download_posts.process_post for one post of the working set, with
\* download_post: needs_fetch is "file info or content is missing", has_files
\* is whether the post has files once fetched, failed the files whose
\* download failed (by an error or by cancellation)
ProcessPost(r, pid, needs_fetch, has_files, failed) ==
    /\ run[r].pc = "posts"
    /\ pid \in run[r].work
    /\ failed # {} => has_files
    /\ LET left == run[r].work \ {pid}
           next_pc == IF left = {} THEN "calc" ELSE "posts"
           cut == dl_stop \/ (needs_fetch /\ api_stop)
       IN /\ run' = [run EXCEPT ![r] =
                IF cut
                THEN [Cut(@) EXCEPT !.work = left, !.pc = next_pc,
                                    !.failed_posts = @ \cup {pid}]
                ELSE [@ EXCEPT !.work = left, !.pc = next_pc,
                               !.post_gets = @ \/ needs_fetch,
                               !.file_gets = @ \/ has_files,
                               !.downloaded = IF failed = {} THEN @ + 1 ELSE @,
                               !.failed_posts = IF failed = {} THEN @ ELSE @ \cup {pid}]]
          /\ cache' = IF cut THEN cache
                      ELSE UpdatePost(cache, pid, failed = {}, failed)
    /\ UNCHANGED <<unitVars, schedVars, fileVars, published, remote, next_id, last_date, artist_skip,
                   dl_stop, api_stop>>

\* download_artist: new_last_date = self._calculate_new_last_date(artist)
Calc(r) ==
    /\ run[r].pc = "calc"
    /\ LET new_last_date == CalculateNewLastDate(cache, run[r].artist_last)
       IN run' = [run EXCEPT ![r] =
                IF new_last_date # NoDate /\ new_last_date > run[r].artist_last
                THEN [@ EXCEPT !.new_last = new_last_date, !.pc = "save"]
                ELSE Returned(@)]
    /\ UNCHANGED <<unitVars, schedVars, fileVars, published, remote, next_id, cache, last_date, artist_skip,
                   dl_stop, api_stop>>

\* download_artist: artist.last_date = new_last_date; storage.save_artist
SaveArtist(r) ==
    /\ run[r].pc = "save"
    /\ last_date' = run[r].new_last
    /\ run' = [run EXCEPT ![r] = Returned([@ EXCEPT !.artist_last = run[r].new_last])]
    /\ UNCHANGED <<unitVars, schedVars, fileVars, published, remote, next_id, cache, artist_skip, dl_stop, api_stop>>

\* the call has returned its result to the worker
Return(r) ==
    /\ run[r].pc = "done"
    /\ run' = [run EXCEPT ![r] = IdleRun]
    /\ UNCHANGED <<unitVars, schedVars, fileVars, published, remote, next_id, cache, last_date, artist_skip,
                   dl_stop, api_stop>>

\* ------------------------------------------------------ the remote service

RemotePublish ==
    /\ AllIdle
    /\ next_id <= MaxPosts
    /\ remote' = <<next_id>> \o remote
    /\ next_id' = next_id + 1
    /\ UNCHANGED <<unitVars, schedVars, fileVars, published, cache, last_date, artist_skip, dl_stop, api_stop, run>>

RemoteDelete(i) ==
    /\ AllIdle
    /\ i \in DOMAIN remote
    /\ remote' = SubSeq(remote, 1, i - 1) \o SubSeq(remote, i + 1, Len(remote))
    /\ UNCHANGED <<unitVars, schedVars, fileVars, published, next_id, cache, last_date, artist_skip,
                   dl_stop, api_stop, run>>

\* the list repeats an entry (pages that overlap)
RemoteDuplicate(i) ==
    /\ AllIdle
    /\ i \in DOMAIN remote
    /\ Cardinality({remote[j] : j \in DOMAIN remote}) = Len(remote)
    /\ remote' = Append(remote, remote[i])
    /\ UNCHANGED <<unitVars, schedVars, fileVars, published, next_id, cache, last_date, artist_skip,
                   dl_stop, api_stop, run>>

\* ------------------------------------- Cache mutators called by the shell

ResetPost(pid) ==
    /\ AllIdle
    /\ pid \in Ids(cache)
    /\ cache' = UpdatePost(cache, pid, FALSE, {})
    /\ UNCHANGED <<unitVars, schedVars, fileVars, published, remote, next_id, last_date, artist_skip,
                   dl_stop, api_stop, run>>

MarkOldDone(before_date) ==
    /\ AllIdle
    /\ cache # <<>>
    /\ cache' = MarkOldDonePosts(cache, before_date)
    /\ UNCHANGED <<unitVars, schedVars, fileVars, published, remote, next_id, last_date, artist_skip,
                   dl_stop, api_stop, run>>

ResetAfterDate(after_date) ==
    /\ AllIdle
    /\ cache # <<>>
    /\ cache' = ResetAfterDatePosts(cache, after_date)
    /\ UNCHANGED <<unitVars, schedVars, fileVars, published, remote, next_id, last_date, artist_skip,
                   dl_stop, api_stop, run>>

IdleReset == [pc |-> "idle", after_date |-> NoDate, before |-> <<>>, ret |-> 0]

\* a call of Cache.reset_after_date from the shell, with what it returns
ResetAfterDateCall(after_date) ==
    /\ reset_call.pc = "idle"
    /\ cache' = ResetAfterDatePosts(cache, after_date)
    /\ reset_call' = [pc |-> "returned", after_date |-> after_date,
                      before |-> cache, ret |-> ResetCount(cache, after_date)]
    /\ UNCHANGED <<published, remote, next_id, last_date, artist_skip, dl_stop,
                   api_stop, run, schedVars, fileVars>>
    /\ UNCHANGED <<upd, upd_last, pool_taken, pool_cut, retry, callVars,
                   task_status, task_error, storage_artists, timerVars,
                   ignore_store, validate_call, laterCalls>>

\* the shell has printed the count
ResetAfterDateReturn ==
    /\ reset_call.pc = "returned"
    /\ reset_call' = IdleReset
    /\ UNCHANGED <<dlVars, schedVars, fileVars>>
    /\ UNCHANGED <<upd, upd_last, pool_taken, pool_cut, retry, callVars,
                   task_status, task_error, storage_artists, timerVars,
                   ignore_store, validate_call, laterCalls>>

\* -------------------------------------------------------------- Scheduler

MaxArtists == 2
MaxTasks == 2
MaxWorkers == 2
MaxWaitTicks == 2
MaxTaskFiles == 1
MaxBatch == 2
MaxCancels == 1

\* Scheduler.max_history
max_history == 100

Artists == 1..MaxArtists
TaskIds == 1..MaxTasks
NoTask == 0

\* DownloadTask.__eq__ and __hash__: (artist_id, from_date, until_date)
TaskKeys == {<<a, fd, NoDate>> : a \in Artists, fd \in {NoDate, 1}}

ManualKey(artist_id) == <<artist_id, NoDate, NoDate>>

SeqToSet(q) == {q[i] : i \in DOMAIN q}

ActiveArtists == {a \in Artists : active_tasks[a] # NoTask}

\* a membership test that finds nothing
AlreadyQueued_Never(key) == FALSE

\* task in self.queued_tasks
AlreadyQueued(key) == \E t \in queued_tasks : task_key[t] = key

\* Scheduler._add_task
AddTask(key) ==
    IF AlreadyQueued(key)
    THEN /\ add_ret' = [key |-> key, ret |-> FALSE]
         /\ UNCHANGED <<task_queue, queued_tasks, task_key, task_pc, task_epoch,
                        next_task>>
    ELSE /\ next_task <= MaxTasks
         /\ add_ret' = [key |-> key, ret |-> TRUE]
         /\ queued_tasks' = queued_tasks \cup {next_task}
         /\ task_queue' = Append(task_queue, next_task)
         /\ task_key' = [task_key EXCEPT ![next_task] = key]
         /\ task_pc' = [task_pc EXCEPT ![next_task] = "queued"]
         /\ task_epoch' = [task_epoch EXCEPT ![next_task] = cancel_returns]
         /\ next_task' = next_task + 1

\* the shell runs one command at a time
ShellIdle == cancel.pc = "idle" /\ batch.todo = <<>>

\* Scheduler.queue_manual
QueueManual(key) ==
    /\ ShellIdle
    /\ AddTask(key)
    /\ UNCHANGED <<active_tasks, completed_tasks, task_files, task_placed, batch,
                   cancel, removed, covered, cancel_returns, max_workers>>
    /\ UNCHANGED <<dlVars, fileVars, unitVars>>

\* Scheduler.queue_batch: the call
QueueBatch(artist_ids) ==
    /\ ShellIdle
    /\ next_task + Len(artist_ids) - 1 <= MaxTasks
    /\ batch' = [todo |-> artist_ids, added |-> 0]
    /\ UNCHANGED <<task_queue, queued_tasks, active_tasks, completed_tasks,
                   task_key, task_pc, task_epoch, task_files, task_placed,
                   next_task, add_ret, cancel, removed, covered, cancel_returns,
                   max_workers>>
    /\ UNCHANGED <<dlVars, fileVars, unitVars>>

\* Scheduler.queue_batch: one turn of its loop
QueueBatchStep ==
    /\ batch.todo # <<>>
    /\ AddTask(ManualKey(Head(batch.todo)))
    /\ batch' = [todo |-> Tail(batch.todo),
                 added |-> IF AlreadyQueued(ManualKey(Head(batch.todo)))
                           THEN batch.added ELSE batch.added + 1]
    /\ UNCHANGED <<active_tasks, completed_tasks, task_files, task_placed,
                   cancel, removed, covered, cancel_returns, max_workers>>
    /\ UNCHANGED <<dlVars, fileVars, unitVars>>

\* Scheduler._check_scheduled_tasks for an artist whose timer is due
CheckScheduled(artist_id) ==
    /\ ~artist_skip
    /\ AddTask(ManualKey(artist_id))
    /\ UNCHANGED <<active_tasks, completed_tasks, task_files, task_placed, batch,
                   cancel, removed, covered, cancel_returns, max_workers>>
    /\ UNCHANGED <<dlVars, fileVars, unitVars>>

\* a test that never finds the workers busy
WorkersFull_Never(active_count) == FALSE

\* a test that always finds the workers busy
WorkersFull_Always(active_count) == TRUE

\* if active_count >= self.max_workers: return
WorkersFull(active_count) == active_count >= max_workers

\* Scheduler._process_queue: the task at the head of the queue is handed to
\* the executor
DispatchNext ==
    /\ ~WorkersFull(Cardinality(ActiveArtists))
    /\ task_queue # <<>>
    /\ LET task == Head(task_queue)
       IN /\ task_queue' = Tail(task_queue)
          /\ queued_tasks' = {t \in queued_tasks : task_key[t] # task_key[task]}
          /\ active_tasks' = [active_tasks EXCEPT ![task_key[task][1]] = task]
          /\ task_pc' = [task_pc EXCEPT ![task] = "submitted"]
    /\ UNCHANGED <<completed_tasks, task_key, task_epoch, task_files, task_placed,
                   next_task, add_ret, batch, cancel, removed, covered,
                   cancel_returns, max_workers>>

\* Scheduler._process_queue, called by a turn of _scheduler_loop
ProcessQueue ==
    /\ DispatchNext
    /\ UNCHANGED <<dlVars, fileVars, unitVars>>


\* the fields of a task and of the queue that the steps of a running task
\* leave alone
TaskFrame ==
    UNCHANGED <<task_queue, queued_tasks, task_key, task_epoch, next_task,
                add_ret, batch, cancel, removed, covered, cancel_returns,
                max_workers>>

\* the tasks that hold a thread of the ThreadPoolExecutor: from the start of
\* _execute_task to the end of the done callback
PoolBusy == {t \in TaskIds : task_pc[t] \in {"update", "posts", "file", "finished"}}

\* a pool that starts a task whatever its threads are doing
PoolHasThread_Always == TRUE

\* ThreadPoolExecutor(max_workers=self.max_workers)
PoolHasThread == Cardinality(PoolBusy) < max_workers

\* DownloadTask.error of None
NoError == "none"

\* str(e) of the exception _execute_task raises for a missing artist
NotFound == "not found"

\* self.storage.get_artist(task.artist_id) returns None
ArtistMissing(t) == task_key[t][1] \notin storage_artists

\* the variables of the calls the Scheduler takes no part in
CallFrame ==
    UNCHANGED <<upd, upd_last, pool_taken, pool_cut, retry, callVars, moreCalls,
                timerVars>>

\* a thread of the pool takes the task: Scheduler._execute_task up to the
\* call of download_artist, and the stop flag check of download_artist
ExecuteBegin(t) ==
    /\ task_pc[t] = "submitted"
    /\ PoolHasThread
    /\ IF ArtistMissing(t)
       THEN /\ task_pc' = [task_pc EXCEPT ![t] = "finished"]
            /\ task_status' = [task_status EXCEPT ![t] = "failed"]
            /\ task_error' = [task_error EXCEPT ![t] = NotFound]
       ELSE /\ task_pc' = [task_pc EXCEPT ![t] =
                    IF dl_stop \/ artist_skip THEN "finished" ELSE "update"]
            /\ task_status' = [task_status EXCEPT ![t] =
                    IF dl_stop \/ artist_skip THEN "completed" ELSE "running"]
            /\ UNCHANGED task_error
    /\ TaskFrame
    /\ UNCHANGED <<active_tasks, completed_tasks, task_files, task_placed>>
    /\ UNCHANGED <<dlVars, fileVars, storage_artists>>
    /\ CallFrame

\* whether update_posts_basic raises: the profile probe does when the API
\* flag is set, and raised stands for any other exception
UpdateRaises(raised) == (~dl_stop /\ api_stop) \/ (~dl_stop /\ raised)

\* update_posts_basic of the task: it returns at once when the Downloader
\* flag is set; an exception ends download_artist in its except clause,
\* which returns DownloadArtistResult.failed to _execute_task
ExecuteUpdate(t, raised) ==
    /\ task_pc[t] = "update"
    /\ task_pc' = [task_pc EXCEPT ![t] =
                    IF UpdateRaises(raised) THEN "finished" ELSE "posts"]
    /\ task_status' = [task_status EXCEPT ![t] =
                    IF UpdateRaises(raised) THEN "completed" ELSE @]
    /\ TaskFrame
    /\ UNCHANGED <<active_tasks, completed_tasks, task_files, task_placed>>
    /\ UNCHANGED <<dlVars, fileVars, task_error, storage_artists>>
    /\ CallFrame

\* download_post.download_file for the next file of the task: the flag
\* checks of process_post, of download_file and of API.download_file, then
\* the GET
StartFile(t) ==
    /\ task_pc[t] = "posts"
    /\ task_files[t] < MaxTaskFiles
    /\ task_files' = [task_files EXCEPT ![t] = @ + 1]
    /\ task_pc' = [task_pc EXCEPT ![t] =
                    IF dl_stop \/ api_stop THEN "posts" ELSE "file"]
    /\ TaskFrame
    /\ UNCHANGED <<active_tasks, completed_tasks, task_placed>>
    /\ UNCHANGED <<dlVars, fileVars, unitVars>>

\* API.download_file: the chunk loop and the rename; ok is whether the
\* stream came through
FinishFile(t, ok) ==
    /\ task_pc[t] = "file"
    /\ task_pc' = [task_pc EXCEPT ![t] = "posts"]
    /\ task_placed' = [task_placed EXCEPT ![t] =
                        IF ok /\ ~api_stop THEN @ + 1 ELSE @]
    /\ TaskFrame
    /\ UNCHANGED <<active_tasks, completed_tasks, task_files>>
    /\ UNCHANGED <<dlVars, fileVars, unitVars>>

\* download_artist returns to _execute_task
FinishTask(t) ==
    /\ task_pc[t] = "posts"
    /\ task_pc' = [task_pc EXCEPT ![t] = "finished"]
    /\ task_status' = [task_status EXCEPT ![t] = "completed"]
    /\ TaskFrame
    /\ UNCHANGED <<active_tasks, completed_tasks, task_files, task_placed>>
    /\ UNCHANGED <<dlVars, fileVars, task_error, storage_artists>>
    /\ CallFrame

\* Scheduler._task_completed
TaskCompleted(t) ==
    /\ task_pc[t] = "finished"
    /\ task_pc' = [task_pc EXCEPT ![t] = "completed"]
    /\ active_tasks' = [active_tasks EXCEPT ![task_key[t][1]] = NoTask]
    /\ completed_tasks' =
            LET appended == Append(completed_tasks, t)
            IN IF Len(appended) > max_history THEN Tail(appended) ELSE appended
    /\ TaskFrame
    /\ UNCHANGED <<task_files, task_placed>>
    /\ UNCHANGED <<dlVars, fileVars, unitVars>>

\* Storage.remove_artist
RemoveArtist(artist_id) ==
    /\ artist_id \in storage_artists
    /\ storage_artists' = storage_artists \ {artist_id}
    /\ UNCHANGED <<task_status, task_error>>
    /\ CallFrame
    /\ UNCHANGED <<dlVars, schedVars, fileVars>>

\* ------------------------------------------ Validator.validate_full_paths

MaxPaths == 2
MaxValidateCalls == 2

\* the paths below the download directory, as the store writes them
RelPaths == 1..MaxPaths

DownloadDir == "download_dir"

\* str(Path(download_dir) / p)
Absolute(p) == <<DownloadDir, p>>

\* Validator._strip_download_dir
StripDownloadDir(path, download_dir) ==
    IF path[1] = download_dir THEN path[2] ELSE path

\* all_data.get(artist_id, {})
NoEntry == [conflicts |-> <<>>, ignores |-> <<>>]

IdleValidate ==
    [calls |-> 0, artists |-> {}, all_conflicts |-> <<>>, first |-> <<>>,
     filtered_count |-> 0]

\* the elements of a set of numbers in ascending order
RECURSIVE Ascending(_)
Ascending(S) ==
    IF S = {} THEN <<>>
    ELSE LET m == CHOOSE x \in S : \A y \in S : x <= y
         IN <<m>> \o Ascending(S \ {m})

\* the conflicts an audit of the artists can report: a path conflicts once,
\* and ids[0] names the artist it is booked on
Audits(artists) ==
    UNION {{[i \in 1..Cardinality(S) |->
                [path |-> Absolute(Ascending(S)[i]), artist |-> owner[Ascending(S)[i]]]] :
            owner \in [S -> artists]} : S \in SUBSET RelPaths}

\* for path in ignored_paths: if path not in merged_ignores: append
RECURSIVE AppendMissing(_, _)
AppendMissing(merged_ignores, ignored_paths) ==
    IF ignored_paths = <<>> THEN merged_ignores
    ELSE AppendMissing(
            IF \E i \in DOMAIN merged_ignores : merged_ignores[i] = Head(ignored_paths)
            THEN merged_ignores ELSE Append(merged_ignores, Head(ignored_paths)),
            Tail(ignored_paths))

\* all_ignored_paths of the audited artists
AllIgnoredPaths(all_data, artists) ==
    UNION {{Absolute(all_data[a].ignores[i]) : i \in DOMAIN all_data[a].ignores} :
                a \in artists}

\* filtered_conflicts
FilteredConflicts(all_data, artists, all_conflicts) ==
    SelectSeq(all_conflicts,
              LAMBDA c : c.path \notin AllIgnoredPaths(all_data, artists))

\* the entry validate_full_paths writes for an audited artist
ArtistEntry(all_data, artists, all_conflicts, artist_id) ==
    LET artist_conflict_list ==
            SelectSeq(FilteredConflicts(all_data, artists, all_conflicts),
                      LAMBDA c : c.artist = artist_id)
        conflict_paths_relative ==
            [i \in DOMAIN artist_conflict_list |->
                StripDownloadDir(artist_conflict_list[i].path, DownloadDir)]
        ignored_paths == all_data[artist_id].ignores
        existing_ignores == all_data[artist_id].ignores
        conflicts_set == {conflict_paths_relative[i] : i \in DOMAIN conflict_paths_relative}
        merged_ignores == SelectSeq(existing_ignores, LAMBDA path : path \in conflicts_set)
    IN [conflicts |-> conflict_paths_relative,
        ignores |-> AppendMissing(merged_ignores, ignored_paths)]

\* Validator.validate_full_paths: the store it saves
ValidatedStore(all_data, artists, all_conflicts) ==
    [a \in Artists |->
        IF a \in artists THEN ArtistEntry(all_data, artists, all_conflicts, a)
        ELSE all_data[a]]

\* a call of validate_full_paths; the calls after the first one audit the
\* same data
ValidateFullPaths(artists, all_conflicts) ==
    /\ validate_call.calls < MaxValidateCalls
    /\ validate_call.calls > 0 =>
            artists = validate_call.artists /\ all_conflicts = validate_call.all_conflicts
    /\ ignore_store' = ValidatedStore(ignore_store, artists, all_conflicts)
    /\ validate_call' =
            [calls |-> validate_call.calls + 1,
             artists |-> artists,
             all_conflicts |-> all_conflicts,
             first |-> IF validate_call.calls = 0
                       THEN ValidatedStore(ignore_store, artists, all_conflicts)
                       ELSE validate_call.first,
             filtered_count |->
                Len(all_conflicts)
                    - Len(FilteredConflicts(ignore_store, artists, all_conflicts))]
    /\ UNCHANGED <<reset_call, task_status, task_error, storage_artists, timerVars,
                   laterCalls>>
    /\ UNCHANGED <<upd, upd_last, pool_taken, pool_cut, retry, callVars>>
    /\ UNCHANGED <<dlVars, schedVars, fileVars>>

\* ------------------------------------------------ the timers of the Scheduler

MaxYears == 1
MaxPauses == 1
MaxPauseDays == 2

\* the instants of a day the model tells apart: a timer's "HH:MM" is one of
\* them, and so is the time of day of now
SlotsPerDay == 2

\* a year of the calendar (no leap year among the years modelled)
DaysPerYear == 365
MonthsPerYear == 12
DaysPerWeek == 7
DaysInMonth == <<31, 28, 31, 30, 31, 30, 31, 31, 30, 31, 30, 31>>

\* artist_id not in self.next_runs
NoRun == -1

\* the ValueError of datetime.replace for a day the month does not have
ValueError == -2

\* artist.timer or self.global_timer of None
NoTimer == [type |-> "none", day |-> 0, time |-> 0]

\* _scheduler_loop is about to call _check_scheduled_tasks
FirstCheck == [pc |-> "check", artist |-> 1]

\* the first instant after the years modelled
Horizon == MaxYears * DaysPerYear * SlotsPerDay

\* the timers a user writes: "HH:MM" is a slot of the day, day a weekday
\* (weekly) or a day of the month (monthly)
Timers ==
    [type : {"daily"}, day : {0}, time : 0..(SlotsPerDay - 1)]
    \cup [type : {"weekly"}, day : {0, 3, 6}, time : 0..(SlotsPerDay - 1)]
    \cup [type : {"monthly"}, day : {1, 15, 31}, time : 0..(SlotsPerDay - 1)]

DayOf(t) == t \div SlotsPerDay

YearOf(dayno) == dayno \div DaysPerYear

\* the days of the year before month m
DaysBefore(m) ==
    LET RECURSIVE sum(_)
        sum(k) == IF k = 0 THEN 0 ELSE DaysInMonth[k] + sum(k - 1)
    IN sum(m - 1)

MonthOf(dayno) ==
    CHOOSE m \in 1..MonthsPerYear :
        /\ DaysBefore(m) <= dayno % DaysPerYear
        /\ dayno % DaysPerYear < DaysBefore(m) + DaysInMonth[m]

\* datetime.weekday(): the first day modelled is a Monday
Weekday(dayno) == dayno % DaysPerWeek

\* datetime.replace(year, month, day) with hour and minute of the timer
ReplaceDate(year, month, day, time) ==
    IF day > DaysInMonth[month] THEN ValueError
    ELSE (year * DaysPerYear + DaysBefore(month) + day - 1) * SlotsPerDay + time

\* Scheduler._calc_next
CalcNext(tm, from_time) ==
    LET today == DayOf(from_time)
        next_run == today * SlotsPerDay + tm.time
    IN CASE tm.type = "daily" ->
                IF next_run <= from_time THEN next_run + SlotsPerDay ELSE next_run
         [] tm.type = "weekly" ->
                LET days_ahead == tm.day - Weekday(today)
                IN next_run + SlotsPerDay *
                        (IF days_ahead <= 0 THEN days_ahead + DaysPerWeek ELSE days_ahead)
         [] tm.type = "monthly" ->
                LET year == YearOf(today)
                    month == MonthOf(today)
                    this_month == ReplaceDate(year, month, tm.day, tm.time)
                IN IF this_month = ValueError THEN ValueError
                   ELSE IF this_month <= from_time
                        THEN IF month = MonthsPerYear
                             THEN ReplaceDate(year + 1, 1, tm.day, tm.time)
                             ELSE ReplaceDate(year, month + 1, tm.day, tm.time)
                        ELSE this_month

\* the user gives the artist a timer
SetTimer(artist_id, tm) ==
    /\ timer[artist_id] = NoTimer
    /\ timer' = [timer EXCEPT ![artist_id] = tm]
    /\ UNCHANGED <<now, next_runs, loop_seen, loop_raised, pauses>>
    /\ UNCHANGED <<task_status, task_error, storage_artists, moreCalls>>
    /\ UNCHANGED <<upd, upd_last, pool_taken, pool_cut, retry, callVars>>
    /\ UNCHANGED <<dlVars, schedVars, fileVars>>

\* time passes between two turns of the loop
Tick ==
    /\ loop_seen = now
    /\ now + 1 < Horizon
    /\ now' = now + 1
    /\ UNCHANGED <<timer, next_runs, loop_seen, loop_raised, pauses>>
    /\ UNCHANGED <<task_status, task_error, storage_artists, moreCalls>>
    /\ UNCHANGED <<upd, upd_last, pool_taken, pool_cut, retry, callVars>>
    /\ UNCHANGED <<dlVars, schedVars, fileVars>>

\* the process is suspended for some days
Pause(days) ==
    /\ pauses < MaxPauses
    /\ now + days * SlotsPerDay < Horizon
    /\ now' = now + days * SlotsPerDay
    /\ pauses' = pauses + 1
    /\ UNCHANGED <<timer, next_runs, loop_seen, loop_raised>>
    /\ UNCHANGED <<task_status, task_error, storage_artists, moreCalls>>
    /\ UNCHANGED <<upd, upd_last, pool_taken, pool_cut, retry, callVars>>
    /\ UNCHANGED <<dlVars, schedVars, fileVars>>

\* the body of the loop of _check_scheduled_tasks for an artist with a
\* timer: _should_run and _calc_next, _add_task when the timer is due, and
\* whether _calc_next raised
CheckArtistTimer(artist_id) ==
    /\ ~artist_skip
    /\ timer[artist_id] # NoTimer
    /\ loop_seen' = now
    /\ LET first == IF next_runs[artist_id] = NoRun
                    THEN CalcNext(timer[artist_id], now)
                    ELSE next_runs[artist_id]
           again == CalcNext(timer[artist_id], now)
       IN IF first = ValueError
          THEN /\ loop_raised' = TRUE
               /\ UNCHANGED <<next_runs, schedVars>>
          ELSE IF now >= first
          THEN IF again = ValueError
               THEN /\ loop_raised' = TRUE
                    /\ next_runs' = [next_runs EXCEPT ![artist_id] = first]
                    /\ UNCHANGED schedVars
               ELSE /\ loop_raised' = FALSE
                    /\ next_runs' = [next_runs EXCEPT ![artist_id] = again]
                    /\ AddTask(ManualKey(artist_id))
                    /\ UNCHANGED <<active_tasks, completed_tasks, task_files,
                                   task_placed, batch, cancel, removed, covered,
                                   cancel_returns, max_workers>>
          ELSE /\ loop_raised' = FALSE
               /\ next_runs' = [next_runs EXCEPT ![artist_id] = first]
               /\ UNCHANGED schedVars
    /\ UNCHANGED <<now, timer, pauses>>
    /\ UNCHANGED <<task_status, task_error, storage_artists>>
    /\ UNCHANGED <<upd, upd_last, pool_taken, pool_cut, retry, callVars>>
    /\ UNCHANGED <<dlVars, fileVars>>

\* a turn of _scheduler_loop for an artist with a timer:
\* _check_scheduled_tasks, _should_run and _calc_next, and the except
\* clause of the loop when _calc_next raises
CheckScheduledTasks(artist_id) ==
    /\ CheckArtistTimer(artist_id)
    /\ UNCHANGED moreCalls

\* ------------------------------------------- Scheduler.cancel_all_tasks

\* a drain that leaves the newest task in the queue
DrainQueue_LeaveLast(q) == IF q = <<>> THEN q ELSE <<q[Len(q)]>>

\* while not self.task_queue.empty(): self.task_queue.get_nowait()
DrainQueue(q) == <<>>

\* a clear that leaves the flag as it is
ClearFlag_Keep(flag) == flag

\* threading.Event.clear
ClearFlag(flag) == FALSE

CancelFrame ==
    UNCHANGED <<active_tasks, completed_tasks, task_key, task_pc, task_epoch,
                task_files, task_placed, next_task, add_ret, batch, max_workers>>

\* step 1: the queue and the queued set are cleared under the lock
CancelClear ==
    /\ ShellIdle
    /\ cancel_returns < MaxCancels
    /\ task_queue' = DrainQueue(task_queue)
    /\ queued_tasks' = {}
    /\ removed' = removed \cup queued_tasks
    /\ cancel' = [pc |-> "stop_dl",
                  active_count |-> Cardinality(ActiveArtists),
                  elapsed |-> 0,
                  seen |-> {active_tasks[a] : a \in ActiveArtists},
                  logged |-> FALSE]
    /\ CancelFrame
    /\ UNCHANGED <<covered, cancel_returns>>
    /\ UNCHANGED <<dlVars, fileVars, unitVars>>

\* step 2: Downloader.stop sets its flag
CancelStopDownloader ==
    /\ cancel.pc = "stop_dl"
    /\ dl_stop' = TRUE
    /\ cancel' = [cancel EXCEPT !.pc = "stop_api"]
    /\ CancelFrame
    /\ UNCHANGED <<task_queue, queued_tasks, removed, covered, cancel_returns>>
    /\ UNCHANGED <<dlData, api_stop, fileVars, unitVars>>

\* step 2: API.stop sets its flag
CancelStopApi ==
    /\ cancel.pc = "stop_api"
    /\ api_stop' = TRUE
    /\ cancel' = [cancel EXCEPT !.pc = IF cancel.active_count > 0
                                       THEN "wait" ELSE "resume_dl"]
    /\ CancelFrame
    /\ UNCHANGED <<task_queue, queued_tasks, removed, covered, cancel_returns>>
    /\ UNCHANGED <<dlData, dl_stop, fileVars, unitVars>>

\* a worker that is between two blocking calls: it has moved on before a
\* sleep of the wait loop is over
Immediate(t) ==
    \/ task_pc[t] = "submitted" /\ PoolHasThread
    \/ task_pc[t] = "finished"

\* step 3: one turn of the wait loop, time.sleep(wait_interval) included
CancelWait ==
    /\ cancel.pc = "wait"
    /\ cancel' = IF cancel.elapsed < MaxWaitTicks /\ ActiveArtists # {}
                 THEN [cancel EXCEPT !.elapsed = @ + 1]
                 ELSE [cancel EXCEPT !.pc = "check"]
    /\ (cancel.elapsed < MaxWaitTicks /\ ActiveArtists # {})
            => \A t \in TaskIds : ~Immediate(t)
    /\ CancelFrame
    /\ UNCHANGED <<task_queue, queued_tasks, removed, covered, cancel_returns>>
    /\ UNCHANGED <<dlVars, fileVars, unitVars>>

\* step 3: the tasks that remain are logged
CancelCheck ==
    /\ cancel.pc = "check"
    /\ cancel' = [cancel EXCEPT !.pc = "resume_dl", !.logged = (ActiveArtists # {})]
    /\ CancelFrame
    /\ UNCHANGED <<task_queue, queued_tasks, removed, covered, cancel_returns>>
    /\ UNCHANGED <<dlVars, fileVars, unitVars>>

\* step 4: Downloader.resume clears its flag
CancelResumeDownloader ==
    /\ cancel.pc = "resume_dl"
    /\ dl_stop' = ClearFlag(dl_stop)
    /\ cancel' = [cancel EXCEPT !.pc = "resume_api"]
    /\ CancelFrame
    /\ UNCHANGED <<task_queue, queued_tasks, removed, covered, cancel_returns>>
    /\ UNCHANGED <<dlData, api_stop, fileVars, unitVars>>

\* step 4: API.resume clears its flag
CancelResumeApi ==
    /\ cancel.pc = "resume_api"
    /\ api_stop' = ClearFlag(api_stop)
    /\ cancel' = [cancel EXCEPT !.pc = "return"]
    /\ CancelFrame
    /\ UNCHANGED <<task_queue, queued_tasks, removed, covered, cancel_returns>>
    /\ UNCHANGED <<dlData, dl_stop, fileVars, unitVars>>

\* return active_count
CancelReturn ==
    /\ cancel.pc = "return"
    /\ cancel' = [cancel EXCEPT !.pc = "idle"]
    /\ covered' = covered \cup cancel.seen
    /\ cancel_returns' = cancel_returns + 1
    /\ CancelFrame
    /\ UNCHANGED <<task_queue, queued_tasks, removed>>
    /\ UNCHANGED <<dlVars, fileVars, unitVars>>

\* ------------------------------------------------------ API.download_file

MaxVersions == 2
MaxAlt == 2

\* the responses the service gives for the URL: version v is v chunks long
Versions == 1..MaxVersions

\* a path that does not exist
NoFile == [ver |-> 0, chunks |-> 0]

FileSize(f) == f.chunks

\* started: on_start was called in the call
IdleFile ==
    [pc |-> "idle", ver |-> 0, content_length |-> 0, ret |-> "none",
     started |-> FALSE]

\* a chunk loop that stops after the first chunk
StreamDone_FirstChunk(f) == f.chunks >= 1

\* for chunk in resp.iter_content(...): the stream is exhausted
StreamDone(f) == f.chunks = f.ver

\* the call, and the cancel flag check at its start
DfBegin ==
    /\ dfile.pc = "idle"
    /\ Len(fs_alt) < MaxAlt
    /\ dfile' = IF api_stop THEN [IdleFile EXCEPT !.ret = "false"]
                ELSE [IdleFile EXCEPT !.pc = "cleanup"]
    /\ UNCHANGED <<fs_dest, fs_tmp, fs_alt>>
    /\ UNCHANGED <<dlVars, schedVars, unitVars>>

\* while temp_path.exists(): temp_path.unlink()
DfCleanTemp ==
    /\ dfile.pc = "cleanup"
    /\ fs_tmp' = NoFile
    /\ dfile' = [dfile EXCEPT !.pc = "get"]
    /\ UNCHANGED <<fs_dest, fs_alt>>
    /\ UNCHANGED <<dlVars, schedVars, unitVars>>

\* session.get that downloads again whatever exists at the destination
DfGet_NoSkip(ver, has_length) ==
    /\ dfile.pc = "get"
    /\ dfile' = [dfile EXCEPT !.pc = "open", !.ver = ver, !.started = TRUE,
                              !.content_length = IF has_length THEN ver ELSE 0]
    /\ UNCHANGED <<fs_dest, fs_tmp, fs_alt>>
    /\ UNCHANGED <<dlVars, schedVars, unitVars>>

\* session.get, the content-length (0: unknown), and the skip of a file that
\* exists with that size
DfGet(ver, has_length) ==
    /\ dfile.pc = "get"
    /\ LET content_length == IF has_length THEN ver ELSE 0
       IN dfile' = IF content_length # 0 /\ fs_dest # NoFile
                        /\ FileSize(fs_dest) = content_length
                    THEN [IdleFile EXCEPT !.ret = "true"]
                    ELSE [dfile EXCEPT !.pc = "open", !.ver = ver,
                                       !.content_length = content_length,
                                       !.started = TRUE]
    /\ UNCHANGED <<fs_dest, fs_tmp, fs_alt>>
    /\ UNCHANGED <<dlVars, schedVars, unitVars>>

\* open(temp_path, 'wb')
DfOpen ==
    /\ dfile.pc = "open"
    /\ fs_tmp' = [ver |-> dfile.ver, chunks |-> 0]
    /\ dfile' = [dfile EXCEPT !.pc = "stream"]
    /\ UNCHANGED <<fs_dest, fs_alt>>
    /\ UNCHANGED <<dlVars, schedVars, unitVars>>

\* one turn of the chunk loop: the cancel flag check, then f.write(chunk)
DfChunk ==
    /\ dfile.pc = "stream"
    /\ ~StreamDone(fs_tmp)
    /\ IF api_stop
       THEN /\ fs_tmp' = NoFile
            /\ dfile' = [IdleFile EXCEPT !.ret = "false", !.started = dfile.started]
       ELSE /\ fs_tmp' = [fs_tmp EXCEPT !.chunks = @ + 1]
            /\ UNCHANGED dfile
    /\ UNCHANGED <<fs_dest, fs_alt>>
    /\ UNCHANGED <<dlVars, schedVars, unitVars>>

\* the request or the stream raises: the handlers unlink the temp file
DfError ==
    /\ dfile.pc \in {"get", "open", "stream"}
    /\ fs_tmp' = NoFile
    /\ dfile' = [IdleFile EXCEPT !.ret = "false", !.started = dfile.started]
    /\ UNCHANGED <<fs_dest, fs_alt>>
    /\ UNCHANGED <<dlVars, schedVars, unitVars>>

\* the stream is exhausted: temp_path.rename(final_path), final_path being
\* the first of "name", "name (1)", "name (2)", ... that does not exist
DfRename ==
    /\ dfile.pc = "stream"
    /\ StreamDone(fs_tmp)
    /\ IF fs_dest = NoFile
       THEN fs_dest' = fs_tmp /\ UNCHANGED fs_alt
       ELSE fs_alt' = Append(fs_alt, fs_tmp) /\ UNCHANGED fs_dest
    /\ fs_tmp' = NoFile
    /\ dfile' = [IdleFile EXCEPT !.ret = "true", !.started = dfile.started]
    /\ UNCHANGED <<dlVars, schedVars, unitVars>>

\* the process is killed in the middle of a call and started again
DfKilled ==
    /\ dfile.pc # "idle"
    /\ dfile' = IdleFile
    /\ UNCHANGED <<fs_dest, fs_tmp, fs_alt>>
    /\ UNCHANGED <<dlVars, schedVars, unitVars>>

\* API.stop
ApiStop ==
    /\ ~api_stop
    /\ api_stop' = TRUE
    /\ UNCHANGED <<dlData, dl_stop, schedVars, fileVars, unitVars>>

\* API.resume
ApiResume ==
    /\ api_stop
    /\ api_stop' = ClearFlag(api_stop)
    /\ UNCHANGED <<dlData, dl_stop, schedVars, fileVars, unitVars>>

\* Downloader.stop: self._stop_flag.set()
StopDownloaderFlag ==
    /\ ~dl_stop
    /\ ~api_stop
    /\ dl_stop' = TRUE
    /\ UNCHANGED <<dlData, api_stop, schedVars, fileVars, unitVars>>

\* Downloader.stop: self.api.stop()
StopApiFlag == dl_stop /\ ApiStop

\* Downloader.resume: self._stop_flag.clear()
ResumeDownloaderFlag ==
    /\ dl_stop
    /\ api_stop
    /\ dl_stop' = ClearFlag(dl_stop)
    /\ UNCHANGED <<dlData, api_stop, schedVars, fileVars, unitVars>>

\* Downloader.resume: self.api.resume()
ResumeApiFlag == ~dl_stop /\ ApiResume

\* the user deletes the downloaded files
UserDeletes ==
    /\ dfile.pc = "idle"
    /\ fs_dest # NoFile
    /\ fs_dest' = NoFile
    /\ fs_alt' = <<>>
    /\ UNCHANGED <<fs_tmp, dfile>>
    /\ UNCHANGED <<dlVars, schedVars, unitVars>>

\* ------------------------------ Cache.update_post, one thread among others

Threads == {1, 2}

NoWrite == [done |-> FALSE, failed_files |-> {}, written |-> FALSE]

IdleUpdate == [pc |-> "idle", posts |-> <<>>, pid |-> 0, done |-> FALSE,
               failed_files |-> {}]

\* update_post: posts = self.load_posts(artist_id), under the lock
UpdatePostLoad(th, pid, done, failed_files) ==
    /\ upd[th].pc = "idle"
    /\ pid \in Ids(cache)
    /\ \A other \in Threads : upd[other].pid # pid
    /\ upd' = [upd EXCEPT ![th] = [pc |-> "loaded", posts |-> cache, pid |-> pid,
                                   done |-> done, failed_files |-> failed_files]]
    /\ UNCHANGED <<extVars, upd_last, retry, callVars, dlVars, schedVars, fileVars>>

\* update_post: the post is changed in the list loaded and
\* self.save_posts(artist_id, posts) writes the list, under the lock again
UpdatePostSave(th) ==
    /\ upd[th].pc = "loaded"
    /\ cache' = UpdatePost(upd[th].posts, upd[th].pid, upd[th].done,
                           upd[th].failed_files)
    /\ upd' = [upd EXCEPT ![th] = IdleUpdate]
    /\ upd_last' = [upd_last EXCEPT ![upd[th].pid] =
                        [done |-> upd[th].done,
                         failed_files |-> upd[th].failed_files,
                         written |-> TRUE]]
    /\ UNCHANGED <<extVars,
                   published, remote, next_id, last_date, artist_skip, dl_stop,
                   api_stop, run, schedVars, fileVars, pool_taken, pool_cut,
                   retry, callVars>>

\* process_post: the stop flag is set when the post is taken, nothing is
\* written
PoolSkip(pid) ==
    /\ dl_stop
    /\ pid \in Ids(cache) \ pool_taken
    /\ pool_taken' = pool_taken \cup {pid}
    /\ pool_cut' = pool_cut \cup {pid}
    /\ UNCHANGED <<extVars,
                   upd, upd_last, retry, callVars, dlVars, schedVars, fileVars>>

\* process_post: download_post succeeded, update_post(id, post, True, [])
PoolSuccess(th, pid) ==
    /\ pid \notin pool_taken
    /\ pool_taken' = pool_taken \cup {pid}
    /\ UNCHANGED pool_cut
    /\ UpdatePostLoad(th, pid, TRUE, {})

\* download_post: files failed, update_post(id, post, False, failed_files);
\* cancelled is whether one of them was skipped or aborted by cancellation
PoolFailure(th, pid, failed_files, cancelled) ==
    /\ pid \notin pool_taken
    /\ cancelled => dl_stop
    /\ pool_taken' = pool_taken \cup {pid}
    /\ pool_cut' = IF cancelled THEN pool_cut \cup {pid} ELSE pool_cut
    /\ UpdatePostLoad(th, pid, FALSE, failed_files)

\* Downloader.stop while download_posts runs
PoolCancel ==
    /\ ~dl_stop
    /\ pool_taken # Ids(cache)
    /\ dl_stop' = TRUE
    /\ api_stop' = TRUE
    /\ UNCHANGED <<dlData, schedVars, fileVars, unitVars>>

\* download_posts returns; Downloader.resume, and the next call begins
PoolReturn ==
    /\ \A th \in Threads : upd[th].pc = "idle"
    /\ pool_taken = Ids(cache)
    /\ pool_taken' = {}
    /\ pool_cut' = {}
    /\ dl_stop' = ClearFlag(dl_stop)
    /\ api_stop' = ClearFlag(api_stop)
    /\ UNCHANGED <<extVars,
                   upd, upd_last, retry, callVars, dlData, schedVars, fileVars>>

\* ------------------------------------------ API._retry_until_success

MaxAttempts == 3

\* the requests the wrapper is used for: get_profile, get_post and
\* download_file(raise_on_error=True)
Requests == {"profile", "post", "file"}

\* what an attempt ends with: the value, a Timeout or ConnectionError, an
\* HTTPError of raise_for_status for a status that may pass (503) or one
\* that will not (404), or another exception
Outcomes == {"ok", "network", "http_transient", "http_permanent", "other"}

\* except (requests.exceptions.RequestException, Timeout, ConnectionError,
\* HTTPError, ConnectionError, TimeoutError): HTTPError is a RequestException
Caught(outcome) == outcome \in {"network", "http_transient", "http_permanent"}

IdleRetry ==
    [pc |-> "idle", func |-> "none", attempts |-> 0, last |-> "none",
     signalled |-> FALSE]

\* get_profile_until_success, get_post_until_success,
\* download_file_until_success
RetryCall(func) ==
    /\ retry.pc = "idle"
    /\ retry' = [IdleRetry EXCEPT !.pc = "check", !.func = func]
    /\ UNCHANGED <<extVars,
                   upd, upd_last, pool_taken, pool_cut, callVars, dlVars, schedVars, fileVars>>

\* while True: if self._stop_flag.is_set(): raise InterruptedError
RetryCheck ==
    /\ retry.pc = "check"
    /\ retry' = [retry EXCEPT !.pc = IF api_stop THEN "cancelled" ELSE "attempt"]
    /\ UNCHANGED <<extVars,
                   upd, upd_last, pool_taken, pool_cut, callVars, dlVars, schedVars, fileVars>>

\* return func(): the request method checks the flag itself and raises
\* InterruptedError, which the wrapper lets through; otherwise it sends the
\* request
RetryAttempt ==
    /\ retry.pc = "attempt"
    /\ retry.attempts < MaxAttempts
    /\ retry' = IF api_stop
                THEN [retry EXCEPT !.pc = "cancelled"]
                ELSE [retry EXCEPT !.pc = "request", !.attempts = @ + 1,
                                   !.last = "none"]
    /\ UNCHANGED <<extVars,
                   upd, upd_last, pool_taken, pool_cut, callVars, dlVars, schedVars, fileVars>>

\* the request ends: the value is returned, a caught exception leads to the
\* flag check and the sleep, another exception is raised
RetryOutcome(outcome) ==
    /\ retry.pc = "request"
    /\ retry' = [retry EXCEPT
                    !.last = outcome,
                    !.pc = IF outcome = "ok" THEN "returned"
                           ELSE IF ~Caught(outcome) THEN "raised"
                           ELSE IF api_stop THEN "cancelled"
                           ELSE "sleep"]
    /\ UNCHANGED <<extVars,
                   upd, upd_last, pool_taken, pool_cut, callVars, dlVars, schedVars, fileVars>>

\* time.sleep(retry_delay) is over: back to the head of the loop
RetryWake ==
    /\ retry.pc = "sleep"
    /\ retry' = [retry EXCEPT !.pc = "check"]
    /\ UNCHANGED <<extVars,
                   upd, upd_last, pool_taken, pool_cut, callVars, dlVars, schedVars, fileVars>>

\* the caller has the value or the exception
RetryEnd ==
    /\ retry.pc \in {"returned", "raised", "cancelled"}
    /\ retry' = IdleRetry
    /\ UNCHANGED <<extVars,
                   upd, upd_last, pool_taken, pool_cut, callVars, dlVars, schedVars, fileVars>>

\* API.stop from another thread; signalled records that it came while the
\* wrapper slept
RetryApiStop ==
    /\ ~api_stop
    /\ api_stop' = TRUE
    /\ retry' = [retry EXCEPT !.signalled = @ \/ retry.pc = "sleep"]
    /\ UNCHANGED <<extVars,
                   upd, upd_last, pool_taken, pool_cut, callVars, dlData, dl_stop, schedVars, fileVars>>

\* ------------------------------------------------ PostFilter.apply_filters

MaxFilterPosts == 2
MaxKeys == 2

Keywords == {"k1", "k2"}

\* post.published: the date before the 'T' and the time after it; the empty
\* string has neither
Published ==
    {[date |-> NoDate, time |-> FALSE]}
        \cup [date : Dates, time : {TRUE}]

\* what the filters read of a post: the keywords its title and content hold,
\* its file, its attachments and its published string
FilterPost ==
    [words : SUBSET Keywords, file : BOOLEAN, attachments : BOOLEAN,
     published : Published]

\* a key of the configuration: whether it is in the dict, and its value (a
\* keyword list as the set of its members)
KeywordsKey == [present : BOOLEAN, value : SUBSET Keywords]
FlagKey == [present : BOOLEAN, value : BOOLEAN]
DateKey == [present : BOOLEAN, value : {NoDate} \cup Dates]

\* the number of keys in the dict
KeyCount(c) ==
    Cardinality({k \in 1..7 :
        <<c.include_keywords.present, c.exclude_keywords.present,
          c.require_all_keywords.present, c.require_files.present,
          c.require_attachments.present, c.published_after.present,
          c.published_before.present>>[k]})

\* the configurations: a key that is not in the dict has no value
FilterConfigs ==
    {c \in [include_keywords : KeywordsKey, exclude_keywords : KeywordsKey,
            require_all_keywords : KeywordsKey, require_files : FlagKey,
            require_attachments : FlagKey, published_after : DateKey,
            published_before : DateKey] :
        /\ ~c.include_keywords.present => c.include_keywords.value = {}
        /\ ~c.exclude_keywords.present => c.exclude_keywords.value = {}
        /\ ~c.require_all_keywords.present => c.require_all_keywords.value = {}
        /\ ~c.require_files.present => ~c.require_files.value
        /\ ~c.require_attachments.present => ~c.require_attachments.value
        /\ ~c.published_after.present => c.published_after.value = NoDate
        /\ ~c.published_before.present => c.published_before.value = NoDate
        /\ KeyCount(c) <= MaxKeys}

\* keyword.lower() in f"{post.title} {post.content}".lower()
ContainsKeyword(post, keyword) == keyword \in post.words

\* all(...) in the place of any(...)
ContainsAnyKeywords_All(post, keywords) ==
    \A kw \in keywords : ContainsKeyword(post, kw)

\* any(PostFilter.contains_keyword(post, kw) for kw in keywords)
ContainsAnyKeywords(post, keywords) ==
    \E kw \in keywords : ContainsKeyword(post, kw)

\* all(PostFilter.contains_keyword(post, kw) for kw in keywords)
ContainsAllKeywords(post, keywords) ==
    \A kw \in keywords : ContainsKeyword(post, kw)

HasAttachments(post) == post.attachments

HasAnyFiles(post) == post.file \/ post.attachments

\* post.published.split('T')[0] if post.published else ""
DatePrefix(published_str) == published_str.date

\* post_date > date_str
PublishedAfter(post, date_str) == DatePrefix(post.published) > date_str

\* post_date < date_str
PublishedBefore(post, date_str) == DatePrefix(post.published) < date_str

\* the body of the loop of apply_filters: TRUE when no 'continue' is taken
PassedAllFilters(post, c) ==
    /\ ~(/\ c.include_keywords.present
         /\ c.include_keywords.value # {}
         /\ ~ContainsAnyKeywords(post, c.include_keywords.value))
    /\ ~(/\ c.exclude_keywords.present
         /\ c.exclude_keywords.value # {}
         /\ ContainsAnyKeywords(post, c.exclude_keywords.value))
    /\ ~(/\ c.require_all_keywords.present
         /\ c.require_all_keywords.value # {}
         /\ ~ContainsAllKeywords(post, c.require_all_keywords.value))
    /\ ~(/\ c.require_files.present /\ c.require_files.value
         /\ ~HasAnyFiles(post))
    /\ ~(/\ c.require_attachments.present /\ c.require_attachments.value
         /\ ~HasAttachments(post))
    /\ ~(/\ c.published_after.present
         /\ c.published_after.value # NoDate
         /\ ~PublishedAfter(post, c.published_after.value))
    /\ ~(/\ c.published_before.present
         /\ c.published_before.value # NoDate
         /\ ~PublishedBefore(post, c.published_before.value))

\* PostFilter.apply_filters
ApplyFilters(posts, filter_config) ==
    IF KeyCount(filter_config) = 0
    THEN posts
    ELSE SelectSeq(posts, LAMBDA post : PassedAllFilters(post, filter_config))

NoFilter ==
    [include_keywords |-> [present |-> FALSE, value |-> {}],
     exclude_keywords |-> [present |-> FALSE, value |-> {}],
     require_all_keywords |-> [present |-> FALSE, value |-> {}],
     require_files |-> [present |-> FALSE, value |-> FALSE],
     require_attachments |-> [present |-> FALSE, value |-> FALSE],
     published_after |-> [present |-> FALSE, value |-> NoDate],
     published_before |-> [present |-> FALSE, value |-> NoDate]]

IdleFilter ==
    [pc |-> "idle", posts |-> <<>>, filter_config |-> NoFilter,
     filtered_posts |-> <<>>]

\* a call of apply_filters and its return value
ApplyFiltersCall(posts, filter_config) ==
    /\ filter_call.pc = "idle"
    /\ filter_call' = [pc |-> "returned", posts |-> posts,
                       filter_config |-> filter_config,
                       filtered_posts |-> ApplyFilters(posts, filter_config)]
    /\ UNCHANGED <<extVars, upd, upd_last, pool_taken, pool_cut, retry, dedup_call,
                   sanitize_call, artist_filter, global_filter, dlVars,
                   schedVars, fileVars>>

\* the caller has the list
ApplyFiltersReturn ==
    /\ filter_call.pc = "returned"
    /\ filter_call' = IdleFilter
    /\ UNCHANGED <<extVars, upd, upd_last, pool_taken, pool_cut, retry, dedup_call,
                   sanitize_call, artist_filter, global_filter, dlVars,
                   schedVars, fileVars>>

\* ------------------------------------------------ Cache.deduplicate_posts

MaxCacheLen == 3
MaxDedupCalls == 2

\* the loop of deduplicate_posts from index i on: seen_ids, unique_posts and
\* duplicate_count
RECURSIVE DedupLoop(_, _, _, _, _)
DedupLoop(posts, i, seen_ids, unique_posts, duplicate_count) ==
    IF i > Len(posts)
    THEN [unique_posts |-> unique_posts, duplicate_count |-> duplicate_count]
    ELSE IF posts[i].id \notin seen_ids
         THEN DedupLoop(posts, i + 1, seen_ids \cup {posts[i].id},
                        Append(unique_posts, posts[i]), duplicate_count)
         ELSE DedupLoop(posts, i + 1, seen_ids, unique_posts,
                        duplicate_count + 1)

\* a loop that lets a repeated id take the place of the entry kept for it
RECURSIVE DedupLoop_KeepLast(_, _, _, _, _)
DedupLoop_KeepLast(posts, i, seen_ids, unique_posts, duplicate_count) ==
    IF i > Len(posts)
    THEN [unique_posts |-> unique_posts, duplicate_count |-> duplicate_count]
    ELSE IF posts[i].id \notin seen_ids
         THEN DedupLoop_KeepLast(posts, i + 1, seen_ids \cup {posts[i].id},
                                 Append(unique_posts, posts[i]), duplicate_count)
         ELSE DedupLoop_KeepLast(posts, i + 1, seen_ids,
                [k \in DOMAIN unique_posts |->
                    IF unique_posts[k].id = posts[i].id
                    THEN posts[i] ELSE unique_posts[k]],
                duplicate_count + 1)

\* deduplicate_posts with that loop
DeduplicatePosts_KeepLast(posts) ==
    IF posts = <<>>
    THEN [posts |-> posts, ret |-> 0]
    ELSE LET loop == DedupLoop_KeepLast(posts, 1, {}, <<>>, 0)
         IN [posts |-> IF loop.duplicate_count > 0
                       THEN loop.unique_posts ELSE posts,
             ret |-> loop.duplicate_count]

\* Cache.deduplicate_posts: the posts file afterwards and the value returned
DeduplicatePosts(posts) ==
    IF posts = <<>>
    THEN [posts |-> posts, ret |-> 0]
    ELSE LET loop == DedupLoop(posts, 1, {}, <<>>, 0)
         IN [posts |-> IF loop.duplicate_count > 0
                       THEN loop.unique_posts ELSE posts,
             ret |-> loop.duplicate_count]

IdleDedup == [calls |-> 0, before |-> <<>>, ret |-> 0]

\* a call of deduplicate_posts; before is the posts file as the first call
\* of a row found it
DeduplicatePostsCall ==
    /\ dedup_call.calls < MaxDedupCalls
    /\ LET result == DeduplicatePosts(cache)
       IN /\ cache' = result.posts
          /\ dedup_call' = [calls |-> dedup_call.calls + 1,
                            before |-> IF dedup_call.calls = 0
                                       THEN cache ELSE dedup_call.before,
                            ret |-> result.ret]
    /\ UNCHANGED <<extVars,
                   published, remote, next_id, last_date, artist_skip, dl_stop,
                   api_stop, run, upd, upd_last, pool_taken, pool_cut, retry,
                   filter_call, sanitize_call, artist_filter, global_filter,
                   schedVars, fileVars>>

\* ---------------------------------------------------- Formatter._sanitize

MaxStrLen == 3

\* a string is the sequence of its characters, a character its name: x01 and
\* x7f are ASCII control characters, tab is the control character that is
\* also a key of char_map, u200b a zero-width character, u3000 a Unicode
\* space, fw_* the full-width forms
ControlChars == {"x01", "x7f", "tab", "cr", "lf"}

ForbiddenChars ==
    {"slash", "backslash", "colon", "star", "question", "quote", "lt", "gt",
     "pipe"}

\* the characters the inputs are made of
Alphabet == {"x01", "x7f", "tab", "u200b", "u3000", " ", ".", "slash", "pipe", "a"}

\* "unknown"
Unknown == <<"u", "n", "k", "n", "o", "w", "n">>

\* a pattern that leaves DEL out: [\x00-\x1F]
RemoveControl_NoDel(text) ==
    SelectSeq(text, LAMBDA c : c \notin ControlChars \ {"x7f"})

\* re.sub(r'[\x00-\x1F\x7F]', '', result)
RemoveControl(text) == SelectSeq(text, LAMBDA c : c \notin ControlChars)

\* char_map in the order of the dict: a character and what replaces it
CharMap ==
    <<  <<"u200b", <<>> >>, <<"u200c", <<>> >>, <<"u200d", <<>> >>,
        <<"ufeff", <<>> >>, <<"u200e", <<>> >>, <<"u200f", <<>> >>,
        <<"u3000", <<" ">> >>, <<"u00a0", <<" ">> >>, <<"u2003", <<" ">> >>,
        <<"u2002", <<" ">> >>, <<"tab", <<" ">> >>, <<"cr", <<" ">> >>,
        <<"lf", <<" ">> >>,
        <<"slash", <<"fw_slash">> >>, <<"backslash", <<"fw_backslash">> >>,
        <<"colon", <<"fw_colon">> >>, <<"star", <<"fw_star">> >>,
        <<"question", <<"fw_question">> >>, <<"quote", <<"fw_quote">> >>,
        <<"lt", <<"fw_lt">> >>, <<"gt", <<"fw_gt">> >>,
        <<"pipe", <<"fw_pipe">> >>  >>

\* str.replace(char, replacement)
RECURSIVE Replace(_, _, _)
Replace(text, char, replacement) ==
    IF text = <<>> THEN <<>>
    ELSE (IF Head(text) = char THEN replacement ELSE <<Head(text)>>)
            \o Replace(Tail(text), char, replacement)

\* for char, replacement in char_map.items(): result = result.replace(...)
RECURSIVE ReplaceAll(_, _)
ReplaceAll(text, k) ==
    IF k > Len(CharMap) THEN text
    ELSE ReplaceAll(Replace(text, CharMap[k][1], CharMap[k][2]), k + 1)

\* re.sub(r' +', ' ', result)
RECURSIVE CompressSpaces(_)
CompressSpaces(text) ==
    IF Len(text) < 2 THEN text
    ELSE IF text[1] = " " /\ text[2] = " "
         THEN CompressSpaces(Tail(text))
         ELSE <<text[1]>> \o CompressSpaces(Tail(text))

\* result.strip(' .')
RECURSIVE Strip(_)
Strip(text) ==
    IF text = <<>> THEN text
    ELSE IF Head(text) \in {" ", "."} THEN Strip(Tail(text))
    ELSE IF text[Len(text)] \in {" ", "."}
         THEN Strip(SubSeq(text, 1, Len(text) - 1))
    ELSE text

\* Formatter._sanitize
Sanitize(text) ==
    IF text = <<>>
    THEN Unknown
    ELSE LET result == Strip(CompressSpaces(ReplaceAll(RemoveControl(text), 1)))
         IN IF result = <<>> THEN Unknown ELSE result

IdleSanitize == [pc |-> "idle", text |-> <<>>, result |-> <<>>]

\* a call of _sanitize and its return value
SanitizeCall(text) ==
    /\ sanitize_call.pc = "idle"
    /\ sanitize_call' = [pc |-> "returned", text |-> text,
                         result |-> Sanitize(text)]
    /\ UNCHANGED <<extVars, upd, upd_last, pool_taken, pool_cut, retry, filter_call,
                   dedup_call, artist_filter, global_filter, dlVars,
                   schedVars, fileVars>>

\* the caller has the string
SanitizeReturn ==
    /\ sanitize_call.pc = "returned"
    /\ sanitize_call' = IdleSanitize
    /\ UNCHANGED <<extVars, upd, upd_last, pool_taken, pool_cut, retry, filter_call,
                   dedup_call, artist_filter, global_filter, dlVars,
                   schedVars, fileVars>>

\* the filters the settings commands store
FilterChoices ==
    {NoFilter,
     [NoFilter EXCEPT !.require_files = [present |-> TRUE, value |-> TRUE]],
     [NoFilter EXCEPT !.exclude_keywords = [present |-> TRUE, value |-> {"k1"}]]}

\* artist.filter = new_config.get("filter", {})
SetArtistFilter(c) ==
    /\ AllIdle
    /\ artist_filter # c
    /\ artist_filter' = c
    /\ UNCHANGED <<extVars, upd, upd_last, pool_taken, pool_cut, retry, filter_call,
                   dedup_call, sanitize_call, global_filter, dlVars,
                   schedVars, fileVars>>

\* config.global_filter = new_config.get("global_filter", {})
SetGlobalFilter(c) ==
    /\ AllIdle
    /\ global_filter # c
    /\ global_filter' = c
    /\ UNCHANGED <<extVars, upd, upd_last, pool_taken, pool_cut, retry, filter_call,
                   dedup_call, sanitize_call, artist_filter, dlVars,
                   schedVars, fileVars>>

\* what the filters read of the cached post pid: the first post holds the
\* keyword k1 and has no file, the others hold k2 and have one
PostView(pid) ==
    [words |-> IF pid = 1 THEN {"k1"} ELSE {"k2"},
     file |-> pid # 1,
     attachments |-> FALSE,
     published |-> [date |-> published[pid], time |-> TRUE]]

\* ------------------------------------------------ Migrator.migrate_posts

MaxPlanPosts == 3
MaxPlanPaths == 3

\* the folders the two templates can render to
PlanPaths == 1..MaxPlanPaths

IdleMigrate ==
    [pc |-> "idle", posts |-> <<>>, old_path |-> <<>>, new_path |-> <<>>,
     exists |-> {}, plan |-> [mappings |-> <<>>, conflicts |-> <<>>,
                              skipped |-> <<>>]]

\* MigrationPlan.empty
EmptyPlan == [mappings |-> <<>>, conflicts |-> <<>>, skipped |-> <<>>]

\* the posts of a sequence of post ids, as a set
PlanSet(posts) == {posts[i] : i \in DOMAIN posts}

\* old_path_to_posts[str(path)] or new_path_to_posts[str(path)]: the posts
\* registered in step 1 that render to the path
PathToPosts(found, path_of, path) ==
    SelectSeq(found, LAMBDA p : path_of[p] = path)

\* the paths of a projection more than one registered post renders to, in
\* the order of their first post
PathConflicts(found, path_of) ==
    LET first == SelectSeq(found, LAMBDA p :
                    /\ Len(PathToPosts(found, path_of, path_of[p])) > 1
                    /\ Head(PathToPosts(found, path_of, path_of[p])) = p)
    IN [i \in DOMAIN first |->
            <<path_of[first[i]], PathToPosts(found, path_of, path_of[first[i]])>>]

\* conflict_posts with step 2.2 left out
ConflictPosts_OldOnly(found, old_path, new_path) ==
    {p \in PlanSet(found) :
        Len(PathToPosts(found, old_path, old_path[p])) > 1}

\* conflict_posts after steps 2.1 and 2.2
ConflictPosts(found, old_path, new_path) ==
    {p \in PlanSet(found) :
        \/ Len(PathToPosts(found, old_path, old_path[p])) > 1
        \/ Len(PathToPosts(found, new_path, new_path[p])) > 1}

\* step 3 for one registered post: the reason it is skipped for, or
\* "mapped"
PlanVerdict(found, old_path, new_path, exists, p) ==
    IF p \in ConflictPosts(found, old_path, new_path)
    THEN IF Len(PathToPosts(found, old_path, old_path[p])) > 1
         THEN "Old path conflict"
         ELSE IF Len(PathToPosts(found, new_path, new_path[p])) > 1
              THEN "New path conflict"
              ELSE "Path conflict"
    ELSE IF old_path[p] = new_path[p] THEN "Same path"
    ELSE IF new_path[p] \in exists THEN "Target exists"
    ELSE "mapped"

\* Migrator.migrate_posts for the posts of the cache file, the folder each
\* post renders to under the old and the new configuration, and the folders
\* that exist on the disk
MigratePosts(posts, old_path, new_path, exists) ==
    IF posts = <<>> THEN EmptyPlan
    ELSE
    LET found == SelectSeq(posts, LAMBDA p : old_path[p] \in exists)
        lost == SelectSeq(posts, LAMBDA p : old_path[p] \notin exists)
        not_found == [i \in DOMAIN lost |-> <<lost[i], "Source not found">>]
        Verdict(p) == PlanVerdict(found, old_path, new_path, exists, p)
        moved == SelectSeq(found, LAMBDA p : Verdict(p) = "mapped")
        kept == SelectSeq(found, LAMBDA p : Verdict(p) # "mapped")
    IN IF found = <<>>
       THEN [mappings |-> <<>>, conflicts |-> <<>>, skipped |-> not_found]
       ELSE [mappings |-> [i \in DOMAIN moved |->
                            <<old_path[moved[i]], new_path[moved[i]], moved[i]>>],
             conflicts |-> PathConflicts(found, old_path)
                            \o PathConflicts(found, new_path),
             skipped |-> not_found
                            \o [i \in DOMAIN kept |-> <<kept[i], Verdict(kept[i])>>]]

\* the variables of the pools and of the calls of the cache commands
UnitFrame ==
    UNCHANGED <<upd, upd_last, pool_taken, pool_cut, retry, callVars, task_status,
                task_error, storage_artists, reset_call, ignore_store,
                validate_call, timerVars>>

\* everything but the call records of the maintenance commands
EarlierFrame == UnitFrame /\ UNCHANGED <<dlVars, schedVars, fileVars>>

\* the shell's migrate command: the plan of migrate_posts for one artist
MigratePostsCall(posts, old_path, new_path, exists) ==
    /\ migrate_call.pc = "idle"
    /\ migrate_call' = [pc |-> "returned", posts |-> posts, old_path |-> old_path,
                        new_path |-> new_path, exists |-> exists,
                        plan |-> MigratePosts(posts, old_path, new_path, exists)]
    /\ EarlierFrame
    /\ UNCHANGED <<rpc_accepted, post_items, full, pass>>

\* the shell has shown the plan
MigratePostsReturn ==
    /\ migrate_call.pc = "returned"
    /\ migrate_call' = IdleMigrate
    /\ EarlierFrame
    /\ UNCHANGED <<rpc_accepted, post_items, full, pass>>

\* ------------------------------------------- commands of the RPC service

\* cancel_all_tasks has cleared the queue and has not yet called
\* Downloader.resume
CancelWindow == cancel.pc \in {"stop_dl", "stop_api", "wait", "check", "resume_dl"}

\* DownloaderService.exposed_execute_command running a download command: the
\* ThreadedServer runs it on a thread of its own, so Scheduler.queue_manual
\* is called whatever the shell is doing
RpcQueueManual(key) ==
    /\ AddTask(key)
    /\ rpc_accepted' = IF ~AlreadyQueued(key) /\ CancelWindow
                       THEN rpc_accepted \cup {next_task}
                       ELSE rpc_accepted
    /\ UNCHANGED <<active_tasks, completed_tasks, task_files, task_placed, batch,
                   cancel, removed, covered, cancel_returns, max_workers>>
    /\ UNCHANGED <<dlVars, fileVars, migrate_call, post_items, full, pass>>
    /\ UnitFrame

\* --------------------------------------------- Downloader.update_posts_full

MaxNames == 2
MaxItemPaths == 2
MaxAttachments == 2
MaxFullCalls == 1

\* a file entry of a post: the fields sequence_contains_all compares
Items == [name : 1..MaxNames, path : 1..MaxItemPaths]

\* post.file of None, or the empty mapping the service sends for no file
NoItem == [name |-> 0, path |-> 0]

\* the place of a file entry in the order the service lists entries in
ItemRank(item) == (item.name - 1) * MaxItemPaths + item.path

\* lists of file entries without repetition, as the service lists them
ItemLists ==
    {q \in UNION {[1..n -> Items] : n \in 0..MaxAttachments} :
        \A i, j \in DOMAIN q : i < j => ItemRank(q[i]) < ItemRank(q[j])}

\* file and attachments of a post that has neither
NoItems == [file |-> NoItem, attachments |-> <<>>]

\* the 'post' object of a get_post response: its 'file' and 'attachments'
\* keys may be missing
FullPosts ==
    {p \in [has_file : BOOLEAN, file : {NoItem} \cup Items,
            has_attachments : BOOLEAN, attachments : ItemLists] :
        /\ ~p.has_file => p.file = NoItem
        /\ ~p.has_attachments => p.attachments = <<>>}

\* no get_post response
NoFullPost == [has_file |-> FALSE, file |-> NoItem, has_attachments |-> FALSE,
               attachments |-> <<>>]

\* the record of the update_post call that ended last: the post it was
\* given, whether its fetch succeeded, and the response
NoLast == [idx |-> 0, fetched |-> FALSE, full_post |-> NoFullPost,
           before |-> [id |-> 0, done |-> FALSE, failed_files |-> {},
                       file |-> NoItem, attachments |-> <<>>]]

IdleFull == [pc |-> "idle", posts |-> <<>>, todo |-> {}, changed |-> {},
             last |-> NoLast, updated_count |-> 0, ret |-> 0, calls |-> 0]

\* is_match with one compared field only
IsMatch_PathOnly(candidate, subset) == candidate.path = subset.path

\* is_match of sequence_contains_all with key_fields=['name', 'path']
IsMatch(candidate, subset) ==
    candidate.name = subset.name /\ candidate.path = subset.path

\* Utils.sequence_contains_all
SequenceContainsAll(superset_items, subset_items) ==
    IF subset_items = <<>> THEN TRUE
    ELSE IF superset_items = <<>> THEN FALSE
    ELSE \A i \in DOMAIN subset_items :
            \E j \in DOMAIN superset_items :
                IsMatch(superset_items[j], subset_items[i])

\* [local_file] if local_file else []
AsList(item) == IF item = NoItem THEN <<>> ELSE <<item>>

\* update_post of update_posts_full: the remote file is not in the local one
FileChanged(post, full_post) ==
    /\ full_post.has_file
    /\ ~SequenceContainsAll(AsList(post.file), AsList(full_post.file))

\* update_post of update_posts_full: a remote attachment is not a local one
AttachmentsChanged(post, full_post) ==
    /\ full_post.has_attachments
    /\ ~SequenceContainsAll(post.attachments, full_post.attachments)

\* changed_for_download
ChangedForDownload(post, full_post) ==
    FileChanged(post, full_post) \/ AttachmentsChanged(post, full_post)

\* update_post of update_posts_full: the post after a fetch that succeeded
FullUpdatedPost(post, full_post) ==
    [post EXCEPT
        !.file = IF FileChanged(post, full_post) THEN full_post.file ELSE @,
        !.attachments = IF AttachmentsChanged(post, full_post)
                        THEN full_post.attachments ELSE @,
        !.done = IF ChangedForDownload(post, full_post) THEN FALSE ELSE @]

\* Cache.load_posts: the posts of the file with their file entries
LoadFullPosts ==
    [i \in DOMAIN cache |->
        [id |-> cache[i].id, done |-> cache[i].done,
         failed_files |-> cache[i].failed_files,
         file |-> post_items[cache[i].id].file,
         attachments |-> post_items[cache[i].id].attachments]]

\* everything update_posts_full leaves alone
FullFrame ==
    /\ UnitFrame
    /\ UNCHANGED <<published, remote, next_id, last_date, artist_skip, dl_stop,
                   api_stop, run, schedVars, fileVars, migrate_call, rpc_accepted,
                   pass>>

\* update_posts_full up to its pool: the stop flag, the skipped artist,
\* update_posts_basic (which finds the count of the profile equal to the
\* cached length and returns) and the load of the posts
FullBegin ==
    /\ full.pc = "idle"
    /\ full.calls < MaxFullCalls
    /\ Len(remote) = Len(cache)
    /\ full' = IF dl_stop \/ artist_skip \/ cache = <<>>
               THEN [IdleFull EXCEPT !.pc = "returned", !.calls = full.calls + 1]
               ELSE [IdleFull EXCEPT !.pc = "pool", !.posts = LoadFullPosts,
                                     !.todo = DOMAIN cache,
                                     !.calls = full.calls + 1]
    /\ UNCHANGED <<cache, post_items>>
    /\ FullFrame

\* a thread of the pool runs update_post for the i-th post: the stop flag
\* check, get_post_until_success (raised: it raises) and the comparison
FullUpdatePost(i, full_post, raised) ==
    /\ full.pc = "pool"
    /\ i \in full.todo
    /\ LET post == full.posts[i]
           fetched == ~dl_stop /\ ~api_stop /\ ~raised
           changed == fetched /\ ChangedForDownload(post, full_post)
       IN full' = [full EXCEPT
                !.posts[i] = IF fetched THEN FullUpdatedPost(post, full_post) ELSE @,
                !.todo = @ \ {i},
                !.changed = IF changed THEN @ \cup {post.id} ELSE @,
                !.last = [idx |-> i, fetched |-> fetched, before |-> post,
                          full_post |-> IF fetched THEN full_post ELSE NoFullPost],
                !.updated_count = IF changed THEN @ + 1 ELSE @]
    /\ UNCHANGED <<cache, post_items>>
    /\ FullFrame

\* every future is done: self.cache.save_posts(artist.id, posts), and the
\* count is returned
FullSave ==
    /\ full.pc = "pool"
    /\ full.todo = {}
    /\ cache' = [i \in DOMAIN full.posts |->
                    [id |-> full.posts[i].id, done |-> full.posts[i].done,
                     failed_files |-> full.posts[i].failed_files]]
    /\ post_items' = [pid \in PostIds |->
                        IF \E i \in DOMAIN full.posts : full.posts[i].id = pid
                        THEN LET i == CHOOSE i \in DOMAIN full.posts :
                                        full.posts[i].id = pid
                             IN [file |-> full.posts[i].file,
                                 attachments |-> full.posts[i].attachments]
                        ELSE post_items[pid]]
    /\ full' = [full EXCEPT !.pc = "returned", !.ret = full.updated_count]
    /\ FullFrame

\* the shell has printed the count
FullReturn ==
    /\ full.pc = "returned"
    /\ full' = [IdleFull EXCEPT !.calls = full.calls]
    /\ UNCHANGED <<cache, post_items>>
    /\ FullFrame

\* ------------------------------------------- Scheduler._scheduler_loop

MaxPassDays == 32

\* the clock stops after the first month and the first day of the second
PassHorizon == MaxPassDays * SlotsPerDay

\* what a pass of _scheduler_loop leaves alone
PassFrame ==
    /\ UNCHANGED <<reset_call, ignore_store, validate_call, migrate_call,
                   rpc_accepted, post_items, full>>
    /\ UNCHANGED <<task_status, task_error, storage_artists>>
    /\ UNCHANGED <<upd, upd_last, pool_taken, pool_cut, retry, callVars>>
    /\ UNCHANGED <<dlVars, fileVars>>

\* for artist in artists: the next artist, or _process_queue after the last
AfterArtist(artist_id) ==
    IF artist_id < MaxArtists
    THEN [pc |-> "check", artist |-> artist_id + 1]
    ELSE [pc |-> "queue", artist |-> artist_id]

\* except Exception: the error is logged and the pass ends in time.sleep(5)
Raised(artist_id) == [pc |-> "sleep", artist |-> artist_id]

\* _check_scheduled_tasks reaches the artist pass.artist: an artist without
\* a timer is passed over; an exception of _calc_next leaves the function
\* and the try block of the loop
PassCheck ==
    /\ pass.pc = "check"
    /\ IF timer[pass.artist] = NoTimer
       THEN /\ pass' = AfterArtist(pass.artist)
            /\ UNCHANGED <<schedVars, timerVars>>
            /\ PassFrame
       ELSE /\ CheckArtistTimer(pass.artist)
            /\ pass' = IF loop_raised' THEN Raised(pass.artist)
                       ELSE AfterArtist(pass.artist)
            /\ UNCHANGED <<reset_call, ignore_store, validate_call, migrate_call,
                           rpc_accepted, post_items, full>>

\* self.storage.get_artists() raises at the start of the pass
PassReadFails ==
    /\ pass = FirstCheck
    /\ pass' = Raised(0)
    /\ loop_raised' = TRUE
    /\ loop_seen' = now
    /\ UNCHANGED <<now, timer, next_runs, pauses, schedVars>>
    /\ PassFrame

\* self._process_queue(), then time.sleep(1)
PassQueue ==
    /\ pass.pc = "queue"
    /\ pass' = [pc |-> "sleep", artist |-> pass.artist]
    /\ IF ~WorkersFull(Cardinality(ActiveArtists)) /\ task_queue # <<>>
       THEN DispatchNext
       ELSE UNCHANGED schedVars
    /\ UNCHANGED timerVars
    /\ PassFrame

\* the sleep ends and the loop begins its next pass
PassSleep ==
    /\ pass.pc = "sleep"
    /\ now + 1 < PassHorizon
    /\ now' = now + 1
    /\ pass' = FirstCheck
    /\ UNCHANGED <<timer, next_runs, loop_seen, loop_raised, pauses, schedVars>>
    /\ PassFrame

\* ---------------------------------------------------------- specification

SchedInit ==
    /\ task_queue = <<>>
    /\ queued_tasks = {}
    /\ active_tasks = [a \in Artists |-> NoTask]
    /\ completed_tasks = <<>>
    /\ task_key = [t \in TaskIds |-> ManualKey(1)]
    /\ task_pc = [t \in TaskIds |-> "new"]
    /\ task_epoch = [t \in TaskIds |-> 0]
    /\ task_files = [t \in TaskIds |-> 0]
    /\ task_placed = [t \in TaskIds |-> 0]
    /\ next_task = 1
    /\ add_ret = [key |-> ManualKey(1), ret |-> FALSE]
    /\ batch = [todo |-> <<>>, added |-> 0]
    /\ cancel = [pc |-> "idle", active_count |-> 0, elapsed |-> 0, seen |-> {},
                 logged |-> FALSE]
    /\ removed = {}
    /\ covered = {}
    /\ cancel_returns = 0
    /\ task_status = [t \in TaskIds |-> "queued"]
    /\ task_error = [t \in TaskIds |-> NoError]
    /\ storage_artists = Artists
    /\ now = 0
    /\ timer = [a \in Artists |-> NoTimer]
    /\ next_runs = [a \in Artists |-> NoRun]
    /\ loop_seen = NoRun
    /\ loop_raised = FALSE
    /\ pauses = 0

UnitInit ==
    /\ upd = [th \in Threads |-> IdleUpdate]
    /\ upd_last = [pid \in PostIds |-> NoWrite]
    /\ pool_taken = {}
    /\ pool_cut = {}
    /\ retry = IdleRetry
    /\ filter_call = IdleFilter
    /\ dedup_call = IdleDedup
    /\ sanitize_call = IdleSanitize
    /\ artist_filter = NoFilter
    /\ global_filter = NoFilter
    /\ reset_call = IdleReset
    /\ ignore_store = [a \in Artists |-> NoEntry]
    /\ validate_call = IdleValidate
    /\ migrate_call = IdleMigrate
    /\ rpc_accepted = {}
    /\ post_items = [pid \in PostIds |-> NoItems]
    /\ full = IdleFull
    /\ pass = FirstCheck

FileInit ==
    /\ fs_dest = NoFile
    /\ fs_tmp = NoFile
    /\ fs_alt = <<>>
    /\ dfile = IdleFile

Init ==
    /\ SchedInit
    /\ UnitInit
    /\ max_workers = MaxWorkers
    /\ FileInit
    /\ published \in [PostIds -> Dates]
    /\ remote = <<>>
    /\ next_id = 1
    /\ cache = <<>>
    /\ last_date \in {NoDate} \cup Dates
    /\ artist_skip \in BOOLEAN
    /\ dl_stop = FALSE
    /\ api_stop = FALSE
    /\ run = [r \in Runners |-> IdleRun]

\* the steps of one download_artist call, its date bounds taken from bounds
RunSteps(r, bounds) ==
    \/ \E fd, ud \in bounds :
            (fd = NoDate \/ ud = NoDate \/ fd < ud) /\ Begin(r, fd, ud)
    \/ UbCheck(r)
    \/ UbProfile(r)
    \/ UbFetch(r)
    \/ UbSave(r)
    \/ Select(r)
    \/ \E pid \in PostIds, needs_fetch, has_files \in BOOLEAN, failed \in SUBSET Files :
            ProcessPost(r, pid, needs_fetch, has_files, failed)
    \/ Calc(r)
    \/ SaveArtist(r)
    \/ Return(r)

RunStep(r) == RunSteps(r, {NoDate} \cup Dates)

Environment ==
    \/ RemotePublish
    \/ \E i \in 1..(MaxPosts + 1) : RemoteDelete(i)
    \/ \E i \in 1..MaxPosts : RemoteDuplicate(i)
    \/ \E pid \in PostIds : ResetPost(pid)
    \/ \E d \in {NoDate} \cup Dates : ResetAfterDate(d)

\* one download_artist call at a time, the remote service and the shell's
\* cache commands between the calls
Next == RunStep(1) \/ Environment

Spec == Init /\ [][Next]_vars

\* the same with every mutator of Cache, also mark_old_done, which no
\* command calls
NextCacheApi ==
    \/ RunStep(1)
    \/ Environment
    \/ \E d \in Dates : MarkOldDone(d)

SpecCacheApi == Init /\ [][NextCacheApi]_vars

\* two download_artist calls for the same artist that overlap: two tasks of
\* one artist are dispatched by _process_queue while both fit in max_workers
InitOverlap ==
    /\ SchedInit
    /\ UnitInit
    /\ max_workers = MaxWorkers
    /\ FileInit
    /\ published = [pid \in PostIds |-> pid]
    /\ remote = <<2, 1>>
    /\ next_id = MaxPosts + 1
    /\ cache = <<>>
    /\ last_date = NoDate
    /\ artist_skip = FALSE
    /\ dl_stop = FALSE
    /\ api_stop = FALSE
    /\ run = [r \in Runners |-> IdleRun]

NextOverlap == \E r \in Runners : RunSteps(r, {NoDate})

SpecOverlap == InitOverlap /\ [][NextOverlap]_vars

\* one download_artist call at a time while Downloader.stop and
\* Downloader.resume are called from another thread
NextStop ==
    \/ RunSteps(1, {NoDate})
    \/ RemotePublish
    \/ StopDownloaderFlag
    \/ StopApiFlag
    \/ ResumeDownloaderFlag
    \/ ResumeApiFlag

SpecStop == Init /\ [][NextStop]_vars

\* the same with the calls that carry date bounds
NextStopRange ==
    \/ RunStep(1)
    \/ RemotePublish
    \/ StopDownloaderFlag
    \/ StopApiFlag
    \/ ResumeDownloaderFlag
    \/ ResumeApiFlag

SpecStopRange == Init /\ [][NextStopRange]_vars

\* one call of the retry wrapper at a time, API.stop and API.resume from
\* another thread
NextRetry ==
    \/ \E func \in Requests : RetryCall(func)
    \/ RetryCheck
    \/ RetryAttempt
    \/ \E outcome \in Outcomes : RetryOutcome(outcome)
    \/ RetryWake
    \/ RetryEnd
    \/ RetryApiStop
    \/ ApiResume

SpecRetry == Init /\ [][NextRetry]_vars

\* the state the calls of the pure functions start from
InitCalls ==
    /\ SchedInit
    /\ UnitInit
    /\ FileInit
    /\ max_workers = MaxWorkers
    /\ published = [pid \in PostIds |-> pid]
    /\ remote = <<>>
    /\ next_id = 1
    /\ cache = <<>>
    /\ last_date = NoDate
    /\ artist_skip = FALSE
    /\ dl_stop = FALSE
    /\ api_stop = FALSE
    /\ run = [r \in Runners |-> IdleRun]

FilterPostLists ==
    UNION {[1..n -> FilterPost] : n \in 0..MaxFilterPosts}

\* apply_filters called with every list of posts and every configuration
NextFilter ==
    \/ /\ filter_call.pc = "idle"
       /\ \E posts \in FilterPostLists, filter_config \in FilterConfigs :
            ApplyFiltersCall(posts, filter_config)
    \/ ApplyFiltersReturn

SpecFilter == InitCalls /\ [][NextFilter]_vars

\* one download_artist call at a time, the remote service and the settings
\* commands that store the filters between the calls
NextFiltered ==
    \/ RunSteps(1, {NoDate})
    \/ RemotePublish
    \/ \E c \in FilterChoices : SetArtistFilter(c)
    \/ \E c \in FilterChoices : SetGlobalFilter(c)

SpecFiltered == Init /\ [][NextFiltered]_vars

\* the posts files deduplicate_posts can find: entries of an id may repeat,
\* with the same or with another status
CachedPost == [id : PostIds, done : BOOLEAN, failed_files : SUBSET Files]

InitDedup ==
    /\ SchedInit
    /\ UnitInit
    /\ FileInit
    /\ max_workers = MaxWorkers
    /\ published = [pid \in PostIds |-> pid]
    /\ remote = <<>>
    /\ next_id = 1
    /\ cache \in UNION {[1..n -> CachedPost] : n \in 0..MaxCacheLen}
    /\ last_date = NoDate
    /\ artist_skip = FALSE
    /\ dl_stop = FALSE
    /\ api_stop = FALSE
    /\ run = [r \in Runners |-> IdleRun]

NextDedup == DeduplicatePostsCall

SpecDedup == InitDedup /\ [][NextDedup]_vars

\* reset_after_date on the posts files the shell can find
NextReset ==
    \/ reset_call.pc = "idle" /\ \E d \in {NoDate} \cup Dates : ResetAfterDateCall(d)
    \/ ResetAfterDateReturn

SpecReset == InitDedup /\ [][NextReset]_vars

Strings == UNION {[1..n -> Alphabet] : n \in 0..MaxStrLen}

\* _sanitize called with every string
NextSanitize ==
    \/ /\ sanitize_call.pc = "idle"
       /\ \E text \in Strings : SanitizeCall(text)
    \/ SanitizeReturn

SpecSanitize == InitCalls /\ [][NextSanitize]_vars

\* the pool of download_posts: its threads call Cache.update_post, each for
\* the post it processes, with the values process_post and download_post pass
InitPool ==
    /\ SchedInit
    /\ UnitInit
    /\ FileInit
    /\ max_workers = MaxWorkers
    /\ published = [pid \in PostIds |-> pid]
    /\ remote = [i \in 1..MaxPosts |-> MaxPosts + 1 - i]
    /\ next_id = MaxPosts + 1
    /\ cache \in {[i \in 1..MaxPosts |->
                      [id |-> MaxPosts + 1 - i, done |-> d[i], failed_files |-> {}]] :
                  d \in [1..MaxPosts -> BOOLEAN]}
    /\ last_date = NoDate
    /\ artist_skip = FALSE
    /\ dl_stop = FALSE
    /\ api_stop = FALSE
    /\ run = [r \in Runners |-> IdleRun]

NextPool ==
    \/ \E th \in Threads, pid \in PostIds : PoolSuccess(th, pid)
    \/ \E th \in Threads, pid \in PostIds, failed \in SUBSET Files \ {{}},
            cancelled \in BOOLEAN : PoolFailure(th, pid, failed, cancelled)
    \/ \E th \in Threads : UpdatePostSave(th)
    \/ \E pid \in PostIds : PoolSkip(pid)
    \/ PoolCancel
    \/ PoolReturn

SpecPool == InitPool /\ [][NextPool]_vars

\* the Scheduler: the shell's commands, the scheduler thread, the workers
InitSched ==
    /\ SchedInit
    /\ UnitInit
    /\ max_workers \in 1..MaxWorkers
    /\ FileInit
    /\ published = [pid \in PostIds |-> 1]
    /\ remote = <<>>
    /\ next_id = 1
    /\ cache = <<>>
    /\ last_date = NoDate
    /\ artist_skip = FALSE
    /\ dl_stop = FALSE
    /\ api_stop = FALSE
    /\ run = [r \in Runners |-> IdleRun]

BatchInputs ==
    UNION {[1..n -> Artists] : n \in 1..MaxBatch}

Shell ==
    \/ \E key \in TaskKeys : QueueManual(key)
    \/ \E artist_ids \in BatchInputs : QueueBatch(artist_ids)
    \/ QueueBatchStep
    \/ CancelClear
    \/ CancelStopDownloader
    \/ CancelStopApi
    \/ CancelWait
    \/ CancelCheck
    \/ CancelResumeDownloader
    \/ CancelResumeApi
    \/ CancelReturn

SchedulerLoop ==
    \/ \E artist_id \in Artists : CheckScheduled(artist_id)
    \/ ProcessQueue

\* a pool thread running _execute_task while the site answers its requests
Worker(t) ==
    \/ ExecuteBegin(t)
    \/ ExecuteUpdate(t, FALSE)
    \/ StartFile(t)
    \/ \E ok \in BOOLEAN : FinishFile(t, ok)
    \/ FinishTask(t)
    \/ TaskCompleted(t)

NextSched == Shell \/ SchedulerLoop \/ \E t \in TaskIds : Worker(t)

SpecSched == InitSched /\ [][NextSched]_vars

\* the Scheduler with manual tasks only, artists removed from the Storage
\* while their tasks wait, and requests of update_posts_basic that raise
NextTask ==
    \/ \E key \in TaskKeys : QueueManual(key)
    \/ ProcessQueue
    \/ \E t \in TaskIds : Worker(t)
    \/ \E t \in TaskIds : ExecuteUpdate(t, TRUE)
    \/ \E artist_id \in Artists : RemoveArtist(artist_id)

SpecTask == InitSched /\ [][NextTask]_vars

\* the running Scheduler without cancel_all_tasks: the shell queues tasks,
\* the loop dispatches them, the pool runs them
NextLive ==
    \/ \E key \in TaskKeys : QueueManual(key)
    \/ \E artist_ids \in BatchInputs : QueueBatch(artist_ids)
    \/ QueueBatchStep
    \/ ProcessQueue
    \/ \E t \in TaskIds : Worker(t)
    \/ \E t \in TaskIds : ExecuteUpdate(t, TRUE)

\* the loop turns every second, so the dispatcher acts when it stays able
\* to; the pool hands its threads out in the order of submission, so a
\* submitted task gets one when threads keep coming free; a thread that
\* runs a task goes on running it, and every download_artist call ends
FairLive ==
    /\ WF_vars(ProcessQueue)
    /\ \A t \in TaskIds :
            /\ SF_vars(ExecuteBegin(t))
            /\ WF_vars(Worker(t))

SpecLive == InitSched /\ [][NextLive]_vars /\ FairLive

\* the ignore lists a user can have written into the store
IgnoreLists ==
    {q \in UNION {[1..n -> RelPaths] : n \in 0..MaxPaths} :
        \A i, j \in DOMAIN q : i # j => q[i] # q[j]}

InitValidate ==
    /\ SchedInit
    /\ max_workers = MaxWorkers
    /\ FileInit
    /\ upd = [th \in Threads |-> IdleUpdate]
    /\ upd_last = [pid \in PostIds |-> NoWrite]
    /\ pool_taken = {}
    /\ pool_cut = {}
    /\ retry = IdleRetry
    /\ filter_call = IdleFilter
    /\ dedup_call = IdleDedup
    /\ sanitize_call = IdleSanitize
    /\ artist_filter = NoFilter
    /\ global_filter = NoFilter
    /\ reset_call = IdleReset
    /\ validate_call = IdleValidate
    /\ ignore_store \in [Artists -> [conflicts : {<<>>}, ignores : IgnoreLists]]
    /\ migrate_call = IdleMigrate
    /\ rpc_accepted = {}
    /\ post_items = [pid \in PostIds |-> NoItems]
    /\ full = IdleFull
    /\ pass = FirstCheck
    /\ published = [pid \in PostIds |-> 1]
    /\ remote = <<>>
    /\ next_id = 1
    /\ cache = <<>>
    /\ last_date = NoDate
    /\ artist_skip = FALSE
    /\ dl_stop = FALSE
    /\ api_stop = FALSE
    /\ run = [r \in Runners |-> IdleRun]

\* validate_full_paths called twice on the same audit
NextValidate ==
    /\ validate_call.calls < MaxValidateCalls
    /\ \E artists \in SUBSET Artists :
            \E all_conflicts \in Audits(artists) :
                ValidateFullPaths(artists, all_conflicts)

SpecValidate == InitValidate /\ [][NextValidate]_vars

\* the timer of one artist: the loop turns at every instant unless the
\* process is suspended, and the dispatcher takes what the timer queued
NextTimer ==
    \/ \E tm \in Timers : SetTimer(1, tm)
    \/ CheckScheduledTasks(1)
    \/ Tick
    \/ \E days \in 1..MaxPauseDays : Pause(days)
    \/ ProcessQueue

SpecTimer == InitSched /\ [][NextTimer]_vars
\* migrate_posts for every cache file of up to MaxPlanPosts posts, every
\* rendering of the two templates and every content of the disk
NextMigrate ==
    \/ /\ migrate_call.pc = "idle"
       /\ \E n \in 0..MaxPlanPosts :
            \E old_path, new_path \in [1..n -> PlanPaths], exists \in SUBSET PlanPaths :
                MigratePostsCall([i \in 1..n |-> i], old_path, new_path, exists)
    \/ MigratePostsReturn

SpecMigrate == InitCalls /\ [][NextMigrate]_vars

\* the Scheduler with the shell and the RPC service both issuing commands
NextRpc ==
    \/ NextSched
    \/ \E key \in TaskKeys : RpcQueueManual(key)

SpecRpc == InitSched /\ [][NextRpc]_vars

\* the file entries a cached post can have
LocalItems ==
    [file : {NoItem, [name |-> 1, path |-> 1]},
     attachments : {<<>>, <<[name |-> 1, path |-> 1], [name |-> 2, path |-> 2]>>}]

\* update_posts_full on a cache whose posts are the posts of the remote list
InitFull ==
    /\ SchedInit
    /\ UnitInit
    /\ FileInit
    /\ max_workers = MaxWorkers
    /\ published = [pid \in PostIds |-> pid]
    /\ remote \in {[i \in 1..n |-> n + 1 - i] : n \in 1..MaxPosts}
    /\ next_id = Len(remote) + 1
    /\ cache \in {posts \in [DOMAIN remote -> CachedPost] :
                    \A i \in DOMAIN remote :
                        posts[i].id = remote[i] /\ posts[i].failed_files = {}}
    /\ last_date = NoDate
    /\ artist_skip = FALSE
    /\ dl_stop = FALSE
    /\ api_stop = FALSE
    /\ run = [r \in Runners |-> IdleRun]

\* the file entries of the cached posts are chosen when the call begins
FullChooseItems ==
    /\ full = IdleFull
    /\ post_items = [pid \in PostIds |-> NoItems]
    /\ post_items' \in [PostIds -> LocalItems]
    /\ \A pid \in PostIds \ Ids(cache) : post_items'[pid] = NoItems
    /\ UNCHANGED <<cache, full>>
    /\ FullFrame

NextFull ==
    \/ FullChooseItems
    \/ FullBegin
    \/ /\ full.pc = "pool"
       /\ \E i \in full.todo, full_post \in FullPosts, raised \in BOOLEAN :
            FullUpdatePost(i, full_post, raised)
    \/ FullSave
    \/ FullReturn

SpecFull == InitFull /\ [][NextFull]_vars

\* a download_artist call and an update_posts_full call of the shell for
\* the same artist that overlap; the responses of get_post either have no
\* file entries or have an attachment the cached post lacks; the service
\* publishes a post between the calls
InitFullOverlap ==
    /\ SchedInit
    /\ UnitInit
    /\ max_workers = MaxWorkers
    /\ FileInit
    /\ published = [pid \in PostIds |-> pid]
    /\ remote = <<1>>
    /\ next_id = 2
    /\ cache = <<[id |-> 1, done |-> FALSE, failed_files |-> {}]>>
    /\ last_date = NoDate
    /\ artist_skip = FALSE
    /\ dl_stop = FALSE
    /\ api_stop = FALSE
    /\ run = [r \in Runners |-> IdleRun]

NextFullOverlap ==
    \/ RunSteps(1, {NoDate})
    \/ RemotePublish
    \/ FullBegin
    \/ /\ full.pc = "pool"
       /\ \E i \in full.todo, raised \in BOOLEAN,
             full_post \in {NoFullPost,
                            [NoFullPost EXCEPT !.has_attachments = TRUE,
                                !.attachments = <<[name |-> 1, path |-> 1]>>]} :
            FullUpdatePost(i, full_post, raised)
    \/ FullSave
    \/ FullReturn

SpecFullOverlap == InitFullOverlap /\ [][NextFullOverlap]_vars

\* the timers of the artists in the passes of the loop: a daily timer, a
\* monthly timer of the first day and one of a day that only some months
\* have
PassTimers ==
    {[type |-> "daily", day |-> 0, time |-> 0],
     [type |-> "monthly", day |-> 1, time |-> 0],
     [type |-> "monthly", day |-> 31, time |-> 0]}

\* the passes of _scheduler_loop over two artists whose timers are those of
\* the configuration the scheduler starts with, and queue_manual between
\* the steps
NextPass ==
    \/ PassCheck
    \/ PassReadFails
    \/ PassQueue
    \/ PassSleep
    \/ /\ pass = FirstCheck
       /\ now = 0
       /\ \E a \in Artists, tm \in PassTimers : SetTimer(a, tm)
    \/ \E a \in Artists : QueueManual(ManualKey(a))

SpecPass == InitSched /\ [][NextPass]_vars

\* ------------------------------------------------------------------ claims

RemoteIds == {remote[i] : i \in DOMAIN remote}

PostOf(posts, pid) == posts[IndexOf(posts, pid)]

AllDone(posts) ==
    \A i \in DOMAIN posts : posts[i].done /\ posts[i].failed_files = {}

\* C1: update_posts_basic keeps done and failed_files of every post that was
\* in the cache before the call and is in the refreshed remote list: when the
\* call has ended, the cache holds the post with the values it had before.
C1_MergePreservesStatus ==
    \A r \in Runners :
        run[r].pc = "select" =>
            \A pid \in Ids(run[r].pre_cache) \cap RemoteIds :
                /\ pid \in Ids(cache)
                /\ PostOf(cache, pid).done = PostOf(run[r].pre_cache, pid).done
                /\ PostOf(cache, pid).failed_files
                        = PostOf(run[r].pre_cache, pid).failed_files

\* a merge was saved that added a new post and kept a post with failed
\* files
C1_Witness ==
    \E r \in Runners :
        /\ run[r].pc = "select"
        /\ run[r].ub_saved
        /\ Len(cache) > Len(run[r].pre_cache)
        /\ \E pid \in Ids(run[r].pre_cache) \cap RemoteIds :
                PostOf(run[r].pre_cache, pid).failed_files # {}

\* C2: the last_date persisted in Storage never decreases, over any sequence
\* of download_artist runs, runs of two tasks for the same artist that overlap
\* in time included.
C2_LastDateNeverDecreases == [][last_date' >= last_date]_vars

\* the posts the watermark walk passes: published after start_date, done,
\* and with no undone post published after start_date before them in
\* ascending published order (cache order among equal dates)
Precedes(posts, j, i) ==
    \/ published[posts[j].id] < published[posts[i].id]
    \/ published[posts[j].id] = published[posts[i].id] /\ j < i

ForwardRange(posts, start_date) ==
    {posts[i].id : i \in
        {k \in DOMAIN posts :
            /\ published[posts[k].id] > start_date
            /\ posts[k].done
            /\ \A j \in DOMAIN posts :
                (Precedes(posts, j, k) /\ published[posts[j].id] > start_date)
                    => posts[j].done}}

MaxPublished(ids) ==
    CHOOSE d \in Dates : (\E pid \in ids : published[pid] = d)
                         /\ (\A pid \in ids : published[pid] <= d)

NotDoneBefore(r, pid) ==
    pid \notin Ids(run[r].pre_cache) \/ ~PostOf(run[r].pre_cache, pid).done

NoBounds(r) == run[r].from_date = NoDate /\ run[r].until_date = NoDate

OnlyProfileProbe(r) ==
    /\ run[r].profile_gets <= 1
    /\ ~run[r].page_gets
    /\ ~run[r].post_gets
    /\ ~run[r].file_gets
    /\ run[r].downloaded = 0

\* the remote list differs from the cached one only by repeated ids
DiffersByDuplicatesOnly(r) ==
    /\ Len(remote) # Len(run[r].pre_cache)
    /\ Len(DedupRemote(remote)) = Len(run[r].pre_cache)
    /\ RemoteIds = Ids(run[r].pre_cache)

C5_DoneHasNoFailedFiles ==
    \A i \in DOMAIN cache : cache[i].done => cache[i].failed_files = {}

\* sequential download_file calls for one destination path, cancelled,
\* failed or killed at any step
NextFile ==
    \/ DfBegin
    \/ DfCleanTemp
    \/ \E ver \in Versions, has_length \in BOOLEAN : DfGet(ver, has_length)
    \/ DfOpen
    \/ DfChunk
    \/ DfError
    \/ DfRename
    \/ DfKilled
    \/ ApiStop
    \/ ApiResume
    \/ UserDeletes

SpecFile == InitSched /\ [][NextFile]_vars

\* ------------------------------------------------- claims on the Scheduler

ActiveTaskSet == {active_tasks[a] : a \in ActiveArtists}

\* the call of cancel_all_tasks returns in this step
CancelReturns == cancel.pc = "return" /\ cancel'.pc = "idle"

\* C6: when cancel_all_tasks returns, no task that was active at its call is
\* left in the active map unless the drain limit has elapsed and the residue
\* was logged; and once it has returned, no task that was active at its call
\* starts a file download or places a file at a destination path.
C6_CancelStopsActiveTasks ==
    [][/\ CancelReturns =>
            \/ cancel.seen \cap ActiveTaskSet = {}
            \/ cancel.elapsed = MaxWaitTicks /\ cancel.logged
       /\ \A t \in covered :
            /\ ~(task_pc[t] # "file" /\ task_pc'[t] = "file")
            /\ task_placed'[t] = task_placed[t]]_vars

\* C7: the first critical section of cancel_all_tasks leaves the queue and
\* the queued set empty and takes out every task that was queued; a task
\* taken out is never again in the queue or the queued set, never dispatched
\* to a worker, never active and never in the completed list.
C7_CancelRemovesQueued ==
    /\ [](\A t \in removed :
            /\ t \notin SeqToSet(task_queue)
            /\ t \notin queued_tasks
            /\ task_pc[t] = "queued"
            /\ t \notin ActiveTaskSet
            /\ t \notin SeqToSet(completed_tasks))
    /\ [][(cancel.pc = "idle" /\ cancel'.pc = "stop_dl") =>
            /\ task_queue' = <<>>
            /\ queued_tasks' = {}
            /\ SeqToSet(task_queue) \subseteq removed']_vars

\* a call took a task out of the queue, and a task it did not take out has
\* gone through a worker to the completed list
C7_Witness ==
    /\ removed # {}
    /\ cancel_returns > 0
    /\ \E t \in TaskIds \ removed : t \in SeqToSet(completed_tasks)

\* C8: whenever no cancel_all_tasks call is in progress, and so after every
\* return of one, the stop flags of the Downloader and of the API are clear;
\* from then on _add_task accepts every task whose key is not queued, and a
\* task that reaches download_artist goes on to update the cache and to
\* download its files: it is neither skipped nor cancelled.
C8_FlagsClearAfterCancel ==
    /\ [](cancel.pc = "idle" => ~dl_stop /\ ~api_stop)
    /\ [][(cancel.pc = "idle" /\ cancel_returns > 0 /\ ~artist_skip) =>
            /\ (add_ret' # add_ret /\ add_ret'.key \notin
                    {task_key[t] : t \in queued_tasks}) => add_ret'.ret
            /\ \A t \in TaskIds :
                /\ (task_pc[t] = "submitted" /\ task_pc'[t] # "submitted")
                        => task_pc'[t] = "update"
                /\ (task_pc[t] = "update" /\ task_pc'[t] # "update")
                        => task_pc'[t] = "posts"
                /\ (task_pc[t] = "posts" /\ task_files'[t] # task_files[t])
                        => task_pc'[t] = "file"]_vars

\* a task queued after a cancel_all_tasks call that had an active task to
\* stop has downloaded a file
C8_Witness ==
    /\ cancel.pc = "idle"
    /\ covered # {}
    /\ \E t \in TaskIds : task_epoch[t] > 0 /\ task_placed[t] > 0

KeyQueued(key) == \E i \in DOMAIN task_queue : task_key[task_queue[i]] = key

QueueKeysDistinct ==
    \A i, j \in DOMAIN task_queue :
        i # j => task_key[task_queue[i]] # task_key[task_queue[j]]

\* C10: the queue never holds two tasks of the same key (artist_id,
\* from_date, until_date) and the queued set is the set of the tasks in the
\* queue; an _add_task call (from queue_manual, queue_batch or the timer)
\* with the key of a queued task returns False and leaves the queue and the
\* queued set as they are, and queue_batch counts exactly the tasks accepted.
C10_QueueDedup ==
    /\ [](QueueKeysDistinct /\ SeqToSet(task_queue) = queued_tasks)
    /\ [][/\ add_ret' # add_ret =>
                IF KeyQueued(add_ret'.key)
                THEN ~add_ret'.ret /\ UNCHANGED <<task_queue, queued_tasks>>
                ELSE add_ret'.ret /\ Len(task_queue') = Len(task_queue) + 1
          /\ (batch.todo # <<>> /\ batch'.todo # batch.todo) =>
                IF KeyQueued(ManualKey(Head(batch.todo)))
                THEN batch'.added = batch.added
                        /\ UNCHANGED <<task_queue, queued_tasks>>
                ELSE batch'.added = batch.added + 1]_vars

\* queue_batch was called with the same artist twice: the second task was
\* refused and not counted
C10_Witness ==
    /\ batch.todo = <<>>
    /\ batch.added = 1
    /\ ~add_ret.ret
    /\ KeyQueued(add_ret.key)
    /\ Len(task_queue) = 1

\* ---------------------------------------------- claims on API.download_file

Complete(f) == f # NoFile /\ f.chunks = f.ver

Executing == {t \in TaskIds : task_pc[t] \in {"update", "posts", "file"}}

C12_NoUpdateLost ==
    (\A th \in Threads : upd[th].pc = "idle") =>
        \A i \in DOMAIN cache :
            upd_last[cache[i].id].written =>
                /\ cache[i].done = upd_last[cache[i].id].done
                /\ cache[i].failed_files = upd_last[cache[i].id].failed_files

\* C13: a post whose processing was cut short by cancellation (the stop
\* flag was seen before it started, or a file download of it was skipped or
\* aborted by cancellation) is never turned to done=true in the cache by
\* that run.
C13_CutPostNotMarkedDone ==
    [][\A i \in DOMAIN cache :
        (cache[i].id \in pool_cut' /\ ~cache[i].done) => ~cache'[i].done]_vars

\* C14: a download_artist call cut short by cancellation, the call made
\* while the stop flag is already set included, never returns a result
\* with success=true.
C14_CancelledRunNotSuccessful ==
    \A r \in Runners :
        (run[r].pc = "done" /\ run[r].cut) => ~run[r].success

\* C15: an HTTP error status that will not pass (404) is never retried:
\* after the attempt that met it the wrapper does not sleep or attempt
\* again, it hands control back to its caller.
C15_PermanentStatusNotRetried ==
    retry.last = "http_permanent" => retry.pc \in {"raised", "cancelled"}

\* C16, first half: the wrapper never starts an attempt while the stop flag
\* is set.
C16_NoAttemptWhileFlagSet ==
    [][(retry.pc = "attempt" /\ retry'.pc = "request") => ~api_stop]_vars

\* C16: a cancellation signalled while the wrapper sleeps always wins: on
\* waking the wrapper raises Cancelled without another attempt, also when
\* resume() was called in between.
C16_CancelDuringSleepWins ==
    retry.signalled => retry.pc \in {"sleep", "check", "cancelled"}

\* what the claim says of a key that is in the configuration
KeyAccepts(post, c) ==
    /\ c.include_keywords.present =>
            \E kw \in c.include_keywords.value : kw \in post.words
    /\ c.exclude_keywords.present =>
            \A kw \in c.exclude_keywords.value : kw \notin post.words
    /\ c.require_all_keywords.present =>
            \A kw \in c.require_all_keywords.value : kw \in post.words
    /\ (c.require_files.present /\ c.require_files.value) =>
            (post.file \/ post.attachments)
    /\ (c.require_attachments.present /\ c.require_attachments.value) =>
            post.attachments
    /\ c.published_after.present =>
            post.published.date > c.published_after.value
    /\ c.published_before.present =>
            post.published.date < c.published_before.value

\* C17 as stated: apply_filters returns exactly the input posts, in input
\* order, that every key present in the configuration accepts.
C17_EveryPresentKeyAccepts ==
    filter_call.pc = "returned" =>
        filter_call.filtered_posts =
            SelectSeq(filter_call.posts,
                      LAMBDA post : KeyAccepts(post, filter_call.filter_config))

\* the same for the keys that are present with a value that is not empty
SetKeyAccepts(post, c) ==
    /\ c.include_keywords.value # {} =>
            \E kw \in c.include_keywords.value : kw \in post.words
    /\ \A kw \in c.exclude_keywords.value : kw \notin post.words
    /\ \A kw \in c.require_all_keywords.value : kw \in post.words
    /\ c.require_files.value => (post.file \/ post.attachments)
    /\ c.require_attachments.value => post.attachments
    /\ c.published_after.value # NoDate =>
            post.published.date > c.published_after.value
    /\ c.published_before.value # NoDate =>
            post.published.date < c.published_before.value

\* C17 amended: apply_filters returns exactly the input posts, in input
\* order, that every key present with a non-empty value accepts; a key that
\* is absent, or present with an empty list, an empty date or false, never
\* removes a post.
C17_EverySetKeyAccepts ==
    filter_call.pc = "returned" =>
        filter_call.filtered_posts =
            SelectSeq(filter_call.posts,
                      LAMBDA post : SetKeyAccepts(post, filter_call.filter_config))

\* two posts, the first rejected by a key and the second kept, with a second
\* key in the configuration that is empty
C17_Witness ==
    /\ filter_call.pc = "returned"
    /\ Len(filter_call.posts) = 2
    /\ filter_call.filtered_posts = <<filter_call.posts[2]>>
    /\ filter_call.posts[1] # filter_call.posts[2]
    /\ filter_call.filter_config.include_keywords.present
    /\ filter_call.filter_config.include_keywords.value = {}
    /\ filter_call.filter_config.published_after.value # NoDate

\* the global filter merged with the artist's filter, the artist's value
\* winning for each key it has
MergedFilter ==
    [include_keywords |->
        IF artist_filter.include_keywords.present
        THEN artist_filter.include_keywords ELSE global_filter.include_keywords,
     exclude_keywords |->
        IF artist_filter.exclude_keywords.present
        THEN artist_filter.exclude_keywords ELSE global_filter.exclude_keywords,
     require_all_keywords |->
        IF artist_filter.require_all_keywords.present
        THEN artist_filter.require_all_keywords
        ELSE global_filter.require_all_keywords,
     require_files |->
        IF artist_filter.require_files.present
        THEN artist_filter.require_files ELSE global_filter.require_files,
     require_attachments |->
        IF artist_filter.require_attachments.present
        THEN artist_filter.require_attachments
        ELSE global_filter.require_attachments,
     published_after |->
        IF artist_filter.published_after.present
        THEN artist_filter.published_after ELSE global_filter.published_after,
     published_before |->
        IF artist_filter.published_before.present
        THEN artist_filter.published_before ELSE global_filter.published_before]

\* C18: download_artist passes to download_posts only the posts of the
\* working set that pass the global filter merged with the artist's filter.
C18_OnlyAcceptedPostsDownloaded ==
    \A r \in Runners :
        run[r].pc = "posts" =>
            \A pid \in run[r].work :
                ApplyFilters(<<PostView(pid)>>, MergedFilter) # <<>>

\* the indices of posts that hold the first entry of an id
FirstIndices(posts) ==
    {i \in DOMAIN posts : \A j \in 1..(i - 1) : posts[j].id # posts[i].id}

\* the entries at those indices, in the order of the indices
FirstOccurrences(posts) ==
    LET first == FirstIndices(posts)
    IN [k \in 1..Cardinality(first) |->
            posts[CHOOSE i \in first : Cardinality({j \in first : j < i}) = k - 1]]

\* C19: deduplicate_posts leaves exactly the first entry of each id, in the
\* original order, and returns the number of entries removed (length before
\* minus number of distinct ids); a second call removes nothing and
\* returns 0.
C19_DedupKeepsFirstAndIsIdempotent ==
    dedup_call.calls > 0 =>
        /\ cache = FirstOccurrences(dedup_call.before)
        /\ dedup_call.calls = 1 =>
                dedup_call.ret =
                    Len(dedup_call.before) - Cardinality(Ids(dedup_call.before))
        /\ dedup_call.calls > 1 => dedup_call.ret = 0

\* two calls on a file in which an id comes back with another status after
\* an entry of another id
C19_Witness ==
    /\ dedup_call.calls = 2
    /\ Len(dedup_call.before) = 3
    /\ dedup_call.before[1].id = dedup_call.before[3].id
    /\ dedup_call.before[1] # dedup_call.before[3]
    /\ dedup_call.before[2].id # dedup_call.before[1].id
    /\ Len(cache) = 2

\* C20: for every input the sanitiser returns a non-empty string ("unknown"
\* when nothing else remains) that contains none of / \ : * ? " < > | and
\* no ASCII control character.
C20_SanitizedIsSafeAndNonEmpty ==
    sanitize_call.pc = "returned" =>
        /\ sanitize_call.result # <<>>
        /\ \A i \in DOMAIN sanitize_call.result :
                sanitize_call.result[i] \notin ForbiddenChars \cup ControlChars
        /\ (\A i \in DOMAIN sanitize_call.text :
                sanitize_call.text[i] \in
                    {"x01", "x7f", "tab", "u200b", "u3000", " ", "."})
            => sanitize_call.result = Unknown

\* an input with a control character, a forbidden character and a letter
C20_Witness ==
    /\ sanitize_call.pc = "returned"
    /\ sanitize_call.text = <<"x7f", "slash", "a">>
    /\ sanitize_call.result = <<"fw_slash", "a">>

\* an input of which nothing remains
C20_WitnessUnknown ==
    /\ sanitize_call.pc = "returned"
    /\ sanitize_call.text = <<"tab", ".", "u3000">>
    /\ sanitize_call.result = Unknown

\* C21: update_posts_basic creates a newly seen post with done=true exactly
\* when the cache was empty before the call, last_date is set and the post's
\* published is at or before last_date; with a cache that was not empty every
\* newly seen post is created with done=false, and the download_artist that
\* made it selects it.
C21_NewPostDoneOnlyForNewArtist ==
    [][\A r \in Runners :
        /\ (run[r].pc = "ub_save" /\ run'[r].pc = "select") =>
            \A i \in DOMAIN cache' :
                cache'[i].id \notin Ids(cache) =>
                    /\ cache'[i].done <=>
                            /\ cache = <<>>
                            /\ last_date # NoDate
                            /\ published[cache'[i].id] <= last_date
                    /\ cache'[i].failed_files = {}
        /\ (/\ run[r].pc = "select" /\ run'[r].pc # "select"
            /\ run[r].from_date = NoDate /\ run[r].until_date = NoDate
            /\ run[r].pre_cache # <<>>) =>
            \A i \in DOMAIN cache :
                cache[i].id \notin Ids(run[r].pre_cache) =>
                    cache[i].id \in run'[r].work]_vars

\* a post older than last_date that the service surfaced for an artist with
\* a cache is in the working set of the call that found it
C21_Witness ==
    \E pid \in PostIds :
        /\ run[1].pc = "posts"
        /\ run[1].ub_saved
        /\ run[1].pre_cache # <<>>
        /\ pid \notin Ids(run[1].pre_cache)
        /\ run[1].pre_last # NoDate
        /\ published[pid] <= run[1].pre_last
        /\ pid \in run[1].work
        /\ run[1].from_date = NoDate
        /\ run[1].until_date = NoDate

\* C22: with from_date and/or until_date set, the posts passed to
\* download_posts are exactly the cached posts with published > from_date
\* (if set) and published <= until_date (if set), whatever their done flag;
\* with neither set they are exactly the posts with done=false or with
\* failed files.
C22_WorkingSetExact ==
    [][\A r \in Runners :
        (run[r].pc = "select" /\ run'[r].pc # "select") =>
            run'[r].work =
                IF run[r].from_date # NoDate \/ run[r].until_date # NoDate
                THEN {cache[i].id : i \in
                        {j \in DOMAIN cache :
                            /\ run[r].from_date # NoDate =>
                                    published[cache[j].id] > run[r].from_date
                            /\ run[r].until_date # NoDate =>
                                    published[cache[j].id] <= run[r].until_date}}
                ELSE {cache[i].id : i \in
                        {j \in DOMAIN cache :
                            ~cache[j].done \/ cache[j].failed_files # {}}}]_vars

\* a range call whose working set holds a post that is done and leaves out a
\* post that is not
C22_Witness ==
    \E i, j \in DOMAIN cache :
        /\ run[1].pc = "posts"
        /\ run[1].from_date # NoDate
        /\ cache[i].done
        /\ cache[i].id \in run[1].work
        /\ ~cache[j].done
        /\ cache[j].id \notin run[1].work
        /\ published[cache[j].id] <= run[1].from_date

\* C23: an exception during a task's execution, raised because the artist
\* is missing or raised inside download_artist, leaves the task with status
\* FAILED and its error field set; the task still moves from the active map
\* to the completed list, and the dispatcher can take the next task.
C23_ExceptionRecordedAsFailed ==
    [][\A t \in TaskIds :
        /\ (task_pc[t] = "submitted" /\ task_pc'[t] = "finished" /\ ArtistMissing(t)) =>
                task_status'[t] = "failed" /\ task_error'[t] # NoError
        /\ (task_pc[t] = "update" /\ task_pc'[t] = "finished") =>
                task_status'[t] = "failed" /\ task_error'[t] # NoError
        /\ (task_pc[t] = "finished" /\ task_pc'[t] = "completed") =>
                /\ active_tasks'[task_key[t][1]] # t
                /\ \E i \in DOMAIN completed_tasks' : completed_tasks'[i] = t
                /\ task_status'[t] = task_status[t]]_vars

\* the part of C23 on the missing artist and on the completed list
C23_MissingArtistRecordedAsFailed ==
    [][\A t \in TaskIds :
        /\ (task_pc[t] = "submitted" /\ task_pc'[t] = "finished" /\ ArtistMissing(t)) =>
                task_status'[t] = "failed" /\ task_error'[t] # NoError
        /\ (task_pc[t] = "finished" /\ task_pc'[t] = "completed") =>
                /\ active_tasks'[task_key[t][1]] # t
                /\ \E i \in DOMAIN completed_tasks' : completed_tasks'[i] = t
                /\ task_status'[t] = task_status[t]]_vars

\* a failed task in the completed list, and a later task dispatched
C23_FailedThenDispatched ==
    \E t, u \in TaskIds :
        /\ task_status[t] = "failed"
        /\ task_pc[t] = "completed"
        /\ task_pc[u] \in {"update", "posts"}
        /\ u > t

\* C24: whenever download_artist advances last_date from old to new, new is
\* the published value of a cached post with done=true, and no cached post
\* with done=false has its published value in (old, new], new included.
C24_AdvanceCoversOnlyDonePosts ==
    [][\A r \in Runners :
        (run[r].pc = "calc" /\ run'[r].pc = "save") =>
            /\ run'[r].new_last > run[r].artist_last
            /\ \E i \in DOMAIN cache :
                    cache[i].done /\ published[cache[i].id] = run'[r].new_last
            /\ \A i \in DOMAIN cache :
                    ~cache[i].done =>
                        ~(/\ published[cache[i].id] > run[r].artist_last
                          /\ published[cache[i].id] <= run'[r].new_last)]_vars

\* the same with the interval open at new: the posts published exactly at
\* new are left out
C24_AdvanceCoversOnlyDonePostsBelow ==
    [][\A r \in Runners :
        (run[r].pc = "calc" /\ run'[r].pc = "save") =>
            /\ run'[r].new_last > run[r].artist_last
            /\ \E i \in DOMAIN cache :
                    cache[i].done /\ published[cache[i].id] = run'[r].new_last
            /\ \A i \in DOMAIN cache :
                    ~cache[i].done =>
                        ~(/\ published[cache[i].id] > run[r].artist_last
                          /\ published[cache[i].id] < run'[r].new_last)]_vars

\* C25: after update_posts_basic completes without cancellation, every post
\* id of the remote post list is in the cache, also when a remote post
\* replaced a deleted one and post_count equals the cached length.
C25_EveryRemotePostCached ==
    [][\A r \in Runners :
        /\ (run[r].pc \in {"ub_profile", "ub_fetch"} /\ run'[r].pc = "select") =>
                RemoteIds \subseteq Ids(cache')
        /\ (run[r].pc = "ub_fetch" /\ run'[r].pc = "ub_save") =>
                RemoteIds \subseteq Ids(run'[r].merged)
        /\ (run[r].pc = "ub_save" /\ run'[r].pc = "select") =>
                Ids(run[r].merged) \subseteq Ids(cache')]_vars

\* C25 as amended: when update_posts_basic saves a merged list (the count
\* of the profile and the length of the de-duplicated remote list both
\* differ from the cached length), every post id of the fetched remote list
\* is in the cache; when one of them equals the cached length, the call
\* returns and leaves the cache as it was.
C25_FetchedPostsCached ==
    [][\A r \in Runners :
        /\ (run[r].pc = "ub_profile" /\ run'[r].pc = "select") =>
                Len(remote) = Len(cache) /\ cache' = cache
        /\ (run[r].pc = "ub_fetch" /\ run'[r].pc = "select") =>
                Cardinality(RemoteIds) = Len(run[r].snap) /\ cache' = cache
        /\ (run[r].pc = "ub_fetch" /\ run'[r].pc = "ub_save") =>
                RemoteIds \subseteq Ids(run'[r].merged)
        /\ (run[r].pc = "ub_save" /\ run'[r].pc = "select") =>
                Ids(run[r].merged) \subseteq Ids(cache')]_vars

\* update_posts_basic has saved a list with a post the cache did not hold
C25_Witness ==
    \E pid \in PostIds :
        /\ run[1].pc = "select"
        /\ run[1].ub_saved
        /\ run[1].pre_cache # <<>>
        /\ pid \notin Ids(run[1].pre_cache)
        /\ pid \in Ids(cache)
        /\ RemoteIds \subseteq Ids(cache)

\* the posts of the call's range: all of them without a date, else those
\* published after it
InResetRange(post) ==
    reset_call.after_date = NoDate \/ published[post.id] > reset_call.after_date

\* the entries of the posts file the call changed
ChangedByReset ==
    {i \in DOMAIN cache : cache[i] # reset_call.before[i]}

C27_ResultMatchesCache ==
    [][\A r \in Runners :
        /\ (run[r].pc = "posts" /\ run'[r].pc = "calc") =>
                \A pid \in run'[r].failed_posts :
                    pid \in Ids(cache') => ~PostOf(cache', pid).done
        /\ \A pid \in PostIds :
                (/\ run[r].pc = "posts"
                 /\ pid \in run[r].work
                 /\ pid \notin run'[r].work
                 /\ run'[r].downloaded = run[r].downloaded + 1) =>
                    /\ PostOf(cache', pid).done
                    /\ PostOf(cache', pid).failed_files = {}]_vars

\* the part of C27 on the posts counted in posts_downloaded, and on the
\* failed posts whose files failed
C27_DownloadedPostsDone ==
    [][\A r \in Runners, pid \in PostIds :
        (run[r].pc = "posts" /\ pid \in run[r].work /\ pid \notin run'[r].work) =>
            /\ run'[r].downloaded = run[r].downloaded + 1 =>
                    /\ PostOf(cache', pid).done
                    /\ PostOf(cache', pid).failed_files = {}
            /\ (pid \in run'[r].failed_posts /\ ~run'[r].cut) =>
                    /\ ~PostOf(cache', pid).done
                    /\ PostOf(cache', pid).failed_files # {}]_vars

\* a turn of the loop at an instant it has not seen, for an artist with a
\* timer
LoopTurn(a) ==
    /\ timer[a] # NoTimer
    /\ ~artist_skip
    /\ loop_seen # now
    /\ loop_seen' = now

\* C28: each time the timer loop observes now >= next_run for an artist with
\* a timer, it enqueues one scheduled task for the artist (unless a task of
\* the same key is already queued) and sets next_run strictly later than
\* now, so that the same due time never fires twice; the first time it sees
\* the artist it sets next_run in the future and enqueues nothing.
C28_TimerFiresOncePerDueTime ==
    [][\A a \in Artists :
        /\ (LoopTurn(a) /\ next_runs[a] = NoRun) =>
                /\ next_runs'[a] > now
                /\ task_queue' = task_queue
        /\ (LoopTurn(a) /\ next_runs[a] # NoRun /\ now >= next_runs[a]) =>
                /\ next_runs'[a] > now
                /\ \E t \in queued_tasks' : task_key[t] = ManualKey(a)
                /\ Len(task_queue') =
                        Len(task_queue) + (IF AlreadyQueued(ManualKey(a)) THEN 0 ELSE 1)
        /\ (LoopTurn(a) /\ next_runs[a] # NoRun /\ now < next_runs[a]) =>
                /\ next_runs'[a] = next_runs[a]
                /\ task_queue' = task_queue
        /\ (timer[a] # NoTimer /\ loop_seen = now /\ now' = now /\ ~loop_raised) =>
                /\ next_runs'[a] = next_runs[a]
                /\ Len(task_queue') <= Len(task_queue)]_vars

\* the timers whose day every month has
EveryMonthHasDay(tm) == tm.type = "monthly" => tm.day <= 28

\* C28 for the daily and weekly timers and the monthly timers of a day that
\* every month has
C28_TimerFiresOncePerDueTimeShortDay ==
    [][\A a \in Artists :
        EveryMonthHasDay(timer[a]) =>
            /\ (LoopTurn(a) /\ next_runs[a] = NoRun) =>
                    /\ next_runs'[a] > now
                    /\ task_queue' = task_queue
            /\ (LoopTurn(a) /\ next_runs[a] # NoRun /\ now >= next_runs[a]) =>
                    /\ next_runs'[a] > now
                    /\ \E t \in queued_tasks' : task_key[t] = ManualKey(a)
                    /\ Len(task_queue') =
                            Len(task_queue) + (IF AlreadyQueued(ManualKey(a)) THEN 0 ELSE 1)
            /\ (LoopTurn(a) /\ next_runs[a] # NoRun /\ now < next_runs[a]) =>
                    /\ next_runs'[a] = next_runs[a]
                    /\ task_queue' = task_queue
            /\ (timer[a] # NoTimer /\ loop_seen = now /\ now' = now /\ ~loop_raised) =>
                    /\ next_runs'[a] = next_runs[a]
                    /\ Len(task_queue') <= Len(task_queue)]_vars

\* a due time has fired while a task of the artist was still queued, and
\* another after the dispatcher had taken it
C28_FiredTwice ==
    /\ next_task = 3
    /\ add_ret.ret = FALSE
    /\ next_runs[1] > now
    /\ loop_seen = now

\* the task has been handed to the worker pool
Dispatched(t) ==
    task_pc[t] \in {"submitted", "update", "posts", "file", "finished", "completed"}

ConflictsOf(a) ==
    {StripDownloadDir(validate_call.all_conflicts[i].path, DownloadDir) :
        i \in {j \in DOMAIN validate_call.all_conflicts :
                    validate_call.all_conflicts[j].artist = a}}

IgnoresOf(a) == {ignore_store[a].ignores[i] : i \in DOMAIN ignore_store[a].ignores}

\* C30: after validate_full_paths the stored ignores of every audited
\* artist are paths that conflict for that artist in the current audit (an
\* ignore whose path conflicts no longer is gone from the store), and a
\* second validation of the same data leaves the store as it was.
C30_IgnoresAreCurrentConflicts ==
    /\ validate_call.calls > 0 =>
            \A a \in validate_call.artists : IgnoresOf(a) \subseteq ConflictsOf(a)
    /\ validate_call.calls > 1 => ignore_store = validate_call.first

\* the part of C30 on the second validation, and the conflicts stored:
\* they are conflicts of the artist in the audit that no audited artist
\* ignores
C30_SecondValidationChangesNothing ==
    /\ validate_call.calls > 0 =>
            \A a \in validate_call.artists :
                {ignore_store[a].conflicts[i] : i \in DOMAIN ignore_store[a].conflicts}
                    \subseteq ConflictsOf(a)
    /\ validate_call.calls > 1 => ignore_store = validate_call.first

\* two validations of an audit with a conflict that is ignored and a
\* conflict that is not
C30_ValidatedTwice ==
    /\ validate_call.calls = 2
    /\ validate_call.filtered_count = 1
    /\ \E a \in validate_call.artists :
            /\ ignore_store[a].conflicts # <<>>
            /\ ignore_store[a].ignores # <<>>
            /\ IgnoresOf(a) \subseteq ConflictsOf(a)

\* ------------------------------------------------- claims on the Migrator

\* the posts of the returned plan's mappings, and of its skipped list
PlanMapped == {migrate_call.plan.mappings[i][3] :
                    i \in DOMAIN migrate_call.plan.mappings}

PlanSkipped == {migrate_call.plan.skipped[i][1] :
                    i \in DOMAIN migrate_call.plan.skipped}

\* the posts the plan skips with a conflict as its reason
PlanSkippedAsConflict ==
    {migrate_call.plan.skipped[i][1] : i \in
        {j \in DOMAIN migrate_call.plan.skipped :
            migrate_call.plan.skipped[j][2] \in
                {"Old path conflict", "New path conflict", "Path conflict"}}}

\* the mappings have pairwise distinct old paths and pairwise distinct new
\* paths, none has old = new or a new path that exists, and every post of
\* the cache is in exactly one of mappings and skipped, once
PlanWellFormed ==
    LET plan == migrate_call.plan
    IN /\ \A i, j \in DOMAIN plan.mappings :
            i # j => /\ plan.mappings[i][1] # plan.mappings[j][1]
                     /\ plan.mappings[i][2] # plan.mappings[j][2]
       /\ \A i \in DOMAIN plan.mappings :
            /\ plan.mappings[i][1] # plan.mappings[i][2]
            /\ plan.mappings[i][2] \notin migrate_call.exists
            /\ plan.mappings[i][1] = migrate_call.old_path[plan.mappings[i][3]]
            /\ plan.mappings[i][2] = migrate_call.new_path[plan.mappings[i][3]]
       /\ PlanMapped \cup PlanSkipped = PlanSet(migrate_call.posts)
       /\ PlanMapped \cap PlanSkipped = {}
       /\ Len(plan.mappings) + Len(plan.skipped) = Len(migrate_call.posts)

\* post p shares its old path or its new path with another post of among
SharesPath(p, among) ==
    \E q \in among \ {p} :
        \/ migrate_call.old_path[q] = migrate_call.old_path[p]
        \/ migrate_call.new_path[q] = migrate_call.new_path[p]

\* the posts of the cache whose old path exists on the disk
PlanFound ==
    {p \in PlanSet(migrate_call.posts) :
        migrate_call.old_path[p] \in migrate_call.exists}

\* C31 as stated: in a plan migrate_posts returned the mappings have pairwise
\* distinct old and pairwise distinct new paths, no mapping has old = new or
\* a new path that exists, every post of the cache is in exactly one of
\* mappings and skipped, and every post that shares an old or a new path
\* with another post of the cache is skipped as a conflict
C31_EverySharingPostIsConflict ==
    migrate_call.pc = "returned" =>
        /\ PlanWellFormed
        /\ \A p \in PlanSet(migrate_call.posts) :
                SharesPath(p, PlanSet(migrate_call.posts))
                    => p \in PlanSkippedAsConflict

\* C31: in a plan migrate_posts returned the mappings have pairwise distinct
\* old and pairwise distinct new paths, no mapping has old = new or a new
\* path that exists, every post of the cache is in exactly one of mappings
\* and skipped, and every post whose old path exists and that shares an old
\* or a new path with another post whose old path exists is skipped as a
\* conflict
C31_SharingFoundPostIsConflict ==
    migrate_call.pc = "returned" =>
        /\ PlanWellFormed
        /\ \A p \in PlanFound :
                SharesPath(p, PlanFound) => p \in PlanSkippedAsConflict

\* a plan that maps one post and skips two others as a conflict
C31_Witness ==
    /\ migrate_call.pc = "returned"
    /\ PlanMapped # {}
    /\ Cardinality(PlanSkippedAsConflict) >= 2

\* C32: when a download_file call has ended by cancellation or by an error,
\* whether before the request, in the chunk loop or at the rename, no file
\* exists at the '.tmp' path
C32_NoTempAfterFailure ==
    (dfile.pc = "idle" /\ dfile.ret = "false") => fs_tmp = NoFile

\* a call that got as far as its clean-up of the '.tmp' path and then ends
\* by cancellation or by an error leaves no file at the '.tmp' path
C32_NoTempAfterFailedRequest ==
    [][(dfile.pc \in {"get", "open", "stream"} /\ dfile'.pc = "idle"
            /\ dfile'.ret = "false") => fs_tmp' = NoFile]_vars

\* a call was cancelled in its chunk loop with data in the '.tmp' file
C32_CancelledMidStream ==
    /\ dfile.pc = "stream"
    /\ fs_tmp # NoFile
    /\ fs_tmp.chunks >= 1
    /\ ~StreamDone(fs_tmp)
    /\ api_stop

\* the tasks handed to the worker pool whose _task_completed has not run
InFlight == {t \in TaskIds :
                task_pc[t] \in {"submitted", "update", "posts", "file", "finished"}}

\* C33: every task that was dispatched to the worker pool and has not
\* completed is in the active map, so the number of entries of the map,
\* which get_queue_status reports as running and cancel_all_tasks waits
\* for, is the number of such tasks; also when two of them have the same
\* artist_id
C33_DispatchedTasksAreActive ==
    /\ InFlight \subseteq ActiveTaskSet
    /\ Cardinality(ActiveArtists) = Cardinality(InFlight)

\* a dispatched task that shares its artist_id with no other dispatched
\* task is in the active map until it completes
C33_LoneTaskIsActive ==
    \A t \in InFlight :
        (\A u \in InFlight \ {t} : task_key[u][1] # task_key[t][1])
            => (t \in ActiveTaskSet \/ \E u \in TaskIds \ {t} :
                    task_pc[u] = "completed" /\ task_key[u][1] = task_key[t][1])

\* two tasks of one artist with different date bounds are both dispatched
C33_TwoTasksOfOneArtist ==
    \E t, u \in InFlight :
        /\ t # u
        /\ task_key[t][1] = task_key[u][1]
        /\ task_key[t][2] # task_key[u][2]

\* C34: no two tasks of the same artist_id are executing download_artist at
\* the same time, whatever is queued by hand or by a timer while a task of
\* the artist is active
C34_OneExecutingTaskPerArtist ==
    \A t, u \in Executing :
        t # u => task_key[t][1] # task_key[u][1]

\* no two tasks of the same key wait in the queue together, and with one
\* worker no two tasks execute together
C34_OneQueuedTaskPerKey ==
    /\ \A i, j \in DOMAIN task_queue :
            i # j => task_key[task_queue[i]] # task_key[task_queue[j]]
    /\ max_workers = 1 => Cardinality(Executing) <= 1

\* a task was accepted for an artist while a task of the same key was
\* executing
C34_SameKeyAcceptedWhileExecuting ==
    \E t \in Executing, u \in queued_tasks : task_key[t] = task_key[u]

\* ------------------------------------------ claims on the RPC service

\* C35: a task queue_manual accepted while cancel_all_tasks was between its
\* clear of the queue and its call of resume is never taken by a worker with
\* the cancellation flag set and ended as completed without a request to
\* the remote: download_artist of such a task is not skipped for the flag
C35_QueuedInCancelIsNotSkipped ==
    [][\A t \in rpc_accepted :
        ~(/\ task_pc[t] = "submitted"
          /\ dl_stop
          /\ ~artist_skip
          /\ task_pc'[t] = "finished"
          /\ task_status'[t] = "completed")]_vars

\* a task accepted in that window that is dispatched only after resume runs
\* a download: it goes on to update_posts_basic
C35_DispatchedAfterResumeRuns ==
    [][\A t \in rpc_accepted :
        (/\ task_pc[t] = "submitted"
         /\ task_pc'[t] # "submitted"
         /\ ~dl_stop
         /\ ~artist_skip) => task_pc'[t] = "update"]_vars

\* a task accepted in the window was skipped and is in the completed list
C35_SkippedTaskCompleted ==
    \E t \in rpc_accepted :
        /\ task_pc[t] = "completed"
        /\ task_files[t] = 0
        /\ t \in SeqToSet(completed_tasks)

\* the first place of pid in the remote list
FirstInRemote(pid) ==
    CHOOSE i \in DOMAIN remote :
        remote[i] = pid /\ \A j \in 1..(i - 1) : remote[j] # pid

\* posts holds every id of the remote list once, in the order in which the
\* ids first appear in the list
InRemoteOrder(posts) ==
    /\ Ids(posts) = RemoteIds
    /\ \A i, j \in DOMAIN posts :
            i < j => FirstInRemote(posts[i].id) < FirstInRemote(posts[j].id)

\* C36: when update_posts_basic has saved and returned true, the ids of the
\* cached posts are the ids of the remote list with repetitions dropped, in
\* the order of the list; a post that was cached and is not in the remote
\* list is gone from the cache
C36_CacheIsRemoteListInOrder ==
    \A r \in Runners :
        (run[r].pc = "select" /\ run[r].ub_saved) =>
            /\ InRemoteOrder(cache)
            /\ \A pid \in Ids(run[r].pre_cache) \ RemoteIds : pid \notin Ids(cache)

\* a merge was saved for a remote list that has lost a post the cache held
C36_Witness ==
    /\ run[1].pc = "select"
    /\ run[1].ub_saved
    /\ Ids(run[1].pre_cache) \ RemoteIds # {}
    /\ cache # <<>>

\* a merge was saved for a remote list that repeats an id
C36_SavedFromRepeatingList ==
    /\ run[1].pc = "select"
    /\ run[1].ub_saved
    /\ Len(remote) > Cardinality(RemoteIds)

\* ------------------------------------------ claims on update_posts_full

\* the {name, path} pairs of a file field, and of an attachments list
FileItems(file) == IF file = NoItem THEN {} ELSE {<<file.name, file.path>>}

AttachmentItems(attachments) ==
    {<<attachments[i].name, attachments[i].path>> : i \in DOMAIN attachments}

\* the response has a file that is not the local file, or an attachment that
\* is not among the local attachments
RemoteHasNewItem(post, full_post) ==
    \/ full_post.has_file /\ ~(FileItems(full_post.file) \subseteq FileItems(post.file))
    \/ /\ full_post.has_attachments
       /\ ~(AttachmentItems(full_post.attachments)
                \subseteq AttachmentItems(post.attachments))

\* C40: update_posts_full sets done of a post it fetched to false exactly
\* when the remote file is not the local one or a remote attachment is not
\* among the local ones, compared by {name, path}; a post whose remote items
\* are all among the local ones keeps its done flag, its file and its
\* attachments; the count returned is the number of posts with a change
\* detected, and the posts are saved as update_post left them
C40_DoneResetIffNewRemoteItem ==
    /\ (full.pc \in {"pool", "returned"} /\ full.last.idx # 0 /\ full.last.fetched) =>
            LET before == full.last.before
                after == full.posts[full.last.idx]
                new_item == RemoteHasNewItem(before, full.last.full_post)
            IN /\ new_item <=> before.id \in full.changed
               /\ new_item => ~after.done
               /\ ~new_item => after = before
    /\ full.updated_count = Cardinality(full.changed)
    /\ (full.pc = "returned" /\ full.posts # <<>>) =>
            /\ full.ret = Cardinality(full.changed)
            /\ \A i \in DOMAIN full.posts :
                    /\ cache[i].id = full.posts[i].id
                    /\ cache[i].done = full.posts[i].done
                    /\ post_items[cache[i].id].file = full.posts[i].file
                    /\ post_items[cache[i].id].attachments = full.posts[i].attachments

\* a call over two done posts returned 1: one post had a new attachment and
\* is undone, the other had its remote items among the local ones and is
\* done with the attachments it had
C40_Witness ==
    /\ full.pc = "returned"
    /\ full.ret = 1
    /\ Len(cache) = 2
    /\ \E i, j \in DOMAIN cache :
            /\ ~cache[i].done
            /\ cache[i].id \in full.changed
            /\ cache[j].done
            /\ cache[j].id \notin full.changed
            /\ Len(post_items[cache[j].id].attachments) = 2
            /\ full.last.idx = j
            /\ full.last.fetched
            /\ Len(full.last.full_post.attachments) = 1

\* the step is the save of an update_posts_basic or an update_posts_full call
SavesPosts ==
    \/ full.pc = "pool" /\ full'.pc = "returned"
    \/ \E r \in Runners : run[r].pc = "ub_save" /\ run'[r].pc = "select"

\* C37: a done=true that update_post wrote while a download runs is not
\* turned into done=false by the save of an update_posts_basic or
\* update_posts_full call that overlaps the download and found no file
\* change for the post
C37_DoneSurvivesOverlappingUpdate ==
    [][SavesPosts =>
        \A pid \in Ids(cache) \cap Ids(cache') :
            (PostOf(cache, pid).done /\ pid \notin full.changed)
                => PostOf(cache', pid).done]_vars

\* a save of update_posts_full that found a change for a post leaves the
\* post undone, and one made while no download has written leaves done as
\* it was loaded
C37_SaveWritesLoadedStatus ==
    [][(full.pc = "pool" /\ full'.pc = "returned") =>
        \A i \in DOMAIN full.posts :
            /\ cache'[i].done = full.posts[i].done
            /\ full.posts[i].id \in full.changed => ~cache'[i].done]_vars

\* update_posts_full has loaded the posts, the download has marked a post
\* done since, and the call found no change for that post
C37_DoneWrittenDuringFullUpdate ==
    /\ full.pc = "pool"
    /\ full.todo = {}
    /\ run[1].pc \in {"posts", "calc"}
    /\ \E i \in DOMAIN cache :
            /\ cache[i].done
            /\ ~full.posts[i].done
            /\ cache[i].id \notin full.changed

\* the step places a file under a "name (N)" path
AddsFile == Len(fs_alt') > Len(fs_alt)

\* C38: a download_file call for a URL whose complete file is at dest_path
\* creates no additional file in the directory and leaves the existing file
\* untouched, whether or not the remote reports a content-length.
C38_SameFileAddsNoFile ==
    [][fs_dest # NoFile =>
        /\ AddsFile => fs_tmp.ver # fs_dest.ver
        /\ fs_dest' \in {fs_dest, NoFile}]_vars

\* C38 (amended): the same, provided the remote reports a content-length
\* equal to the size of the file at dest_path: a call that adds a file was
\* given no content-length or one that differs from that size.
C38_SameSizeAddsNoFile ==
    [][fs_dest # NoFile =>
        /\ AddsFile => dfile.content_length # FileSize(fs_dest)
        /\ fs_dest' \in {fs_dest, NoFile}]_vars

\* a call for the file that is at dest_path, with the content-length
\* reported, has returned true and the directory holds that file alone
C38_Witness ==
    /\ dfile.ret = "true"
    /\ dfile.pc = "idle"
    /\ Complete(fs_dest)
    /\ fs_alt = <<>>
    /\ fs_tmp = NoFile
    /\ ~dfile.started

\* the response at dest_path has been downloaded again, without a
\* content-length, and placed under "name (1)"
C38_SameFileTwice ==
    /\ fs_dest # NoFile
    /\ fs_alt # <<>>
    /\ fs_alt[1] = fs_dest

\* the step ends a pass of _scheduler_loop
EndsPass == pass.pc # "sleep" /\ pass'.pc = "sleep"

\* a queued task that a worker slot is free for has been dispatched, and
\* the timer of every artist but a is evaluated: its next run is recorded
\* and lies ahead
PassDone(a) ==
    /\ (task_queue # <<>> /\ ~WorkersFull(Cardinality(ActiveArtists)))
            => Len(task_queue') < Len(task_queue)
    /\ \A b \in Artists \ {a} :
            (timer[b] # NoTimer /\ EveryMonthHasDay(timer[b]))
                => next_runs'[b] # NoRun /\ next_runs'[b] > now

\* C39: an exception raised while the timers are evaluated in a pass of the
\* dispatcher (a timer whose next run cannot be computed, a failed artist
\* read) does not keep the pass from dispatching a queued task nor from
\* evaluating the timers of the other artists.
C39_RaisedPassStillDispatches ==
    [][EndsPass => PassDone(pass'.artist)]_vars

\* a pass that raises nothing dispatches a queued task and evaluates the
\* timer of every artist
C39_QuietPassDispatches ==
    [][(EndsPass /\ pass.pc = "queue") => PassDone(0)]_vars

\* the timer of the first artist has raised in the pass: a queued task
\* waits although no worker is busy, and the timer of the second artist is
\* due and has not fired
C39_QueuedTaskWaits ==
    /\ pass = Raised(1)
    /\ loop_raised
    /\ task_queue # <<>>
    /\ ActiveArtists = {}
    /\ timer[2] # NoTimer
    /\ EveryMonthHasDay(timer[2])
    /\ next_runs[2] # NoRun
    /\ next_runs[2] <= now

====
